---- MODULE Spec2Model ----
(***************************************************************************)
(* Rezolus BPF samplers: the aggregation protocol shared by the hooks.     *)
(*                                                                         *)
(* Every sampler is one BPF object with its own maps; a behaviour loads    *)
(* one sampler (variable `sampler`) and then runs its hooks.  BPF array    *)
(* maps are total over 0..max_entries-1 and zero-initialised; they are     *)
(* kept here as finite functions that hold only the non-zero slots (a      *)
(* slot outside the domain reads as zero).  A BPF hash map is a finite     *)
(* function whose domain is the set of keys present.                       *)
(*                                                                         *)
(* u64 values keep their width: a u64 is four little-endian 16-bit limbs.  *)
(* u32 values (map keys, indices) are integers, read as two's complement   *)
(* int32 (a u32 >= 2^31 is the negative integer with the same bits).       *)
(***************************************************************************)
EXTENDS Integers, Sequences, FiniteSets, TLC

(***************************************************************************)
(* Bounds of the model (inputs drawn by the environment).                  *)
(***************************************************************************)
\* timestamps the clock may return besides 0: 1000, 1500, ...
NumTimes == 3
\* interval keys in use: thread ids, sockets, throttled cgroup ids
NumKeys == 1
\* in-range cgroup ids tasks live in (attribution)
NumCgroups == 1
\* non-zero version tags a cgroup id may carry: 3, 4, ...
NumSerials == 2
\* in-range CPUs events arrive on
NumCpus == 1
\* syscall numbers below MAX_SYSCALL_ID the workload issues: 1, 2, ...
NumSyscalls == 1
\* records the metadata ring holds before bpf_ringbuf_output fails
RingbufRecords == 1
\* hook invocations per behaviour
MaxEvents == 3
\* CPUs that run a hook at the same time in the concurrent sessions
NumRunning == 2
\* octaves above the 1:1 range whose buckets the observed values probe
NumOctaves == 2
\* messages each CPU sends in a traffic session
NumRounds == 2
\* thread group ids whose tasks are switched out in a perf session
NumTasks == 2

(***************************************************************************)
(* Program constants.                                                      *)
(***************************************************************************)
MAX_CPUS == 1024
MAX_CGROUPS == 4096
MAX_PID == 4194304
MAX_SYSCALL_ID == 1024
MAX_IRQS == 4096
MAX_ENTRIES == 10240
NO_EXIST == 1
SYSCALL_COUNTER_GROUP_WIDTH == 16
SYSCALL_HISTOGRAM_POWER == 3
SOFTIRQ_COUNTER_GROUP_WIDTH == 8
TLB_COUNTER_GROUP_WIDTH == 8
TCP_HISTOGRAM_POWER == 4
TCP_HISTOGRAM_BUCKETS == 512
TRAFFIC_COUNTER_GROUP_WIDTH == 8
TRAFFIC_COUNTERS == 8192
TRAFFIC_HISTOGRAM_POWER == 4
TRAFFIC_HISTOGRAM_BUCKETS == 512
AF_INET == 2
AF_INET6 == 10
TCP_RX_BYTES == 0
TCP_TX_BYTES == 1
TCP_RX_PACKETS == 2
TCP_TX_PACKETS == 3
PERF_COUNTER_GROUP_WIDTH == 8
TASK_RUNNING == 0
CYCLES == 0
INSTRUCTIONS == 1
MAX_NUMA_NODES == 1024

(***************************************************************************)
(* 64-bit unsigned arithmetic on limbs.                                    *)
(***************************************************************************)
LIMB == 2^16

Zero64 == <<0, 0, 0, 0>>

\* the u64 with value n, 0 <= n < 2^31
U64(n) == <<n % LIMB, (n \div LIMB) % LIMB, 0, 0>>

\* a + b modulo 2^64
U64Add(a, b) ==
    LET s1 == a[1] + b[1]
        s2 == a[2] + b[2] + (s1 \div LIMB)
        s3 == a[3] + b[3] + (s2 \div LIMB)
        s4 == a[4] + b[4] + (s3 \div LIMB)
    IN  <<s1 % LIMB, s2 % LIMB, s3 % LIMB, s4 % LIMB>>

\* a - b modulo 2^64
U64Sub(a, b) ==
    LET d1 == a[1] - b[1]
        d2 == a[2] - b[2] - (IF d1 < 0 THEN 1 ELSE 0)
        d3 == a[3] - b[3] - (IF d2 < 0 THEN 1 ELSE 0)
        d4 == a[4] - b[4] - (IF d3 < 0 THEN 1 ELSE 0)
    IN  <<d1 % LIMB, d2 % LIMB, d3 % LIMB, d4 % LIMB>>

U64Lt(a, b) ==
    \E i \in 1..4 : a[i] < b[i] /\ \A j \in (i + 1)..4 : a[j] = b[j]

U64Le(a, b) == a = b \/ U64Lt(a, b)

RECURSIVE BitAnd(_, _)
BitAnd(x, y) ==
    IF x = 0 \/ y = 0 THEN 0
    ELSE (x % 2) * (y % 2) + 2 * BitAnd(x \div 2, y \div 2)

U64And(a, b) == <<BitAnd(a[1], b[1]), BitAnd(a[2], b[2]),
                  BitAnd(a[3], b[3]), BitAnd(a[4], b[4])>>

U64Limb(v, i) == IF i \in 1..4 THEN v[i] ELSE 0

\* v << s modulo 2^64, 0 <= s < 64
U64Shl(v, s) ==
    LET q == s \div 16
        r == s % 16
    IN  [i \in 1..4 |->
            ((U64Limb(v, i - q) * 2^r) % LIMB)
            + ((U64Limb(v, i - q - 1) * 2^r) \div LIMB)]

\* v >> s, 0 <= s < 64
U64Shr(v, s) ==
    LET q == s \div 16
        r == s % 16
    IN  [i \in 1..4 |->
            (U64Limb(v, i + q) \div 2^r)
            + (U64Limb(v, i + q + 1) % 2^r) * 2^(16 - r)]

\* position of the highest set bit of v # 0 (63 - clz)
U64Log2(v) ==
    LET j == CHOOSE k \in 1..4 : v[k] # 0 /\ \A m \in (k + 1)..4 : v[m] = 0
        h == CHOOSE b \in 0..15 : 2^b <= v[j] /\ v[j] < 2^(b + 1)
    IN  16 * (j - 1) + h

\* the u32 read at the address of a u64 (little-endian), or the cast (u32)v:
\* the low 32 bits, as int32
U32Of64(v) ==
    IF v[2] < 2^15 THEN v[1] + v[2] * LIMB ELSE v[1] + (v[2] - LIMB) * LIMB

\* unsigned comparison of two u32
U32Lt(a, b) == IF (a < 0) = (b < 0) THEN a < b ELSE b < 0

(***************************************************************************)
(* BPF maps.                                                               *)
(***************************************************************************)
EmptyMap == [k \in {} |-> Zero64]

\* bpf_map_lookup_elem on an array map returns NULL iff key >= max_entries
InRange(key, max_entries) == 0 <= key /\ key < max_entries

ArrayGet(map, key) == IF key \in DOMAIN map THEN map[key] ELSE Zero64

ArrayPut(map, key, value) ==
    IF value = Zero64
    THEN [k \in DOMAIN map \ {key} |-> map[k]]
    ELSE [k \in DOMAIN map \cup {key} |-> IF k = key THEN value ELSE map[k]]

\* bpf_map_update_elem(&array, &key, &value, BPF_ANY)
array_update(map, max_entries, key, value) ==
    IF InRange(key, max_entries) THEN ArrayPut(map, key, value) ELSE map

\* an update that ignores its flags and always replaces the value
hash_update_any(map, max_entries, key, value, flags) ==
    IF key \notin DOMAIN map /\ Cardinality(DOMAIN map) >= max_entries THEN map
    ELSE [k \in DOMAIN map \cup {key} |-> IF k = key THEN value ELSE map[k]]

\* an update of an LRU hash map: a new key evicts an entry of a full map
hash_update_lru(map, max_entries, key, value, flags) ==
    IF key \in DOMAIN map
    THEN IF flags = NO_EXIST THEN map
         ELSE [k \in DOMAIN map |-> IF k = key THEN value ELSE map[k]]
    ELSE LET kept == IF Cardinality(DOMAIN map) >= max_entries
                     THEN DOMAIN map \ {CHOOSE k \in DOMAIN map : TRUE}
                     ELSE DOMAIN map
         IN  [k \in kept \cup {key} |-> IF k = key THEN value ELSE map[k]]

\* bpf_map_update_elem(&hash, &key, &value, flags)
hash_update(map, max_entries, key, value, flags) ==
    IF key \in DOMAIN map
    THEN IF flags = NO_EXIST THEN map ELSE [map EXCEPT ![key] = value]
    ELSE IF Cardinality(DOMAIN map) >= max_entries THEN map
         ELSE (key :> value) @@ map

\* a delete that leaves the entry in place
hash_keep(map, key) == map

\* bpf_map_delete_elem(&hash, &key)
hash_delete(map, key) ==
    IF key \in DOMAIN map THEN [k \in DOMAIN map \ {key} |-> map[k]] ELSE map

\* an add that does not check the lookup's result
array_add_unguarded(array, max_entries, idx, value) ==
    ArrayPut(array, idx, U64Add(ArrayGet(array, idx), value))

\* helpers.h: atomic fetch-and-add on the slot, nothing when the lookup fails
array_add(array, max_entries, idx, value) ==
    IF InRange(idx, max_entries)
    THEN ArrayPut(array, idx, U64Add(ArrayGet(array, idx), value))
    ELSE array

\* an increment that adds 2
array_incr_twice(array, max_entries, idx) == array_add(array, max_entries, idx, U64(2))

array_incr(array, max_entries, idx) == array_add(array, max_entries, idx, U64(1))

\* histogram.h (not in the tree): the bucket of a value at grouping power p
value_to_index(value, p) ==
    IF U64Lt(value, U64(2^p)) THEN value[1]
    ELSE LET power == U64Log2(value)
             offset == U64Shr(value, power - p)[1] - 2^p
         IN  (power - p + 1) * 2^p + offset

\* buckets needed for every u64 at grouping power p
total_buckets(p) == (65 - p) * 2^p

SYSCALL_HISTOGRAM_BUCKETS == total_buckets(SYSCALL_HISTOGRAM_POWER)

(***************************************************************************)
(* State.                                                                  *)
(***************************************************************************)
VARIABLES
    sampler,                  \* the BPF object loaded in this session
    steps,                    \* hook invocations so far
    ev,                       \* what the last hook invocation saw and did
    prev,                     \* what the hook invocation before it saw and did
    sched_task_group_exists,  \* bpf_core_field_exists(current->sched_task_group)
    syscall_lut,              \* syscall id -> family, written by the loader
    irq_lut,                  \* irq id -> group, written by the loader
    lut,                      \* packet_latency: slot 0 is the sampling mask
    start,                    \* pending start timestamps (syscall, softirq, tcp)
    throttling_start,         \* pending throttle start per cgroup id
    counters,                 \* system-wide per-CPU counters (syscall, softirq)
    events,                   \* system-wide per-CPU tlb_flush counters
    perf_counters,            \* perf: previous hardware counter readings per CPU
    numa_counters,            \* numa: the NUMA event counter maps, by map name
    cgroup_serial_numbers,    \* cached version tag per cgroup id
    cgroup_info,              \* the metadata ring buffer
    cgroup_counters,          \* per-cgroup counter maps, by map name
    histograms,               \* histogram maps, by map name
    cpus                      \* hook invocations in progress on each CPU

luts == <<syscall_lut, irq_lut, lut, sched_task_group_exists>>
attribution == <<cgroup_serial_numbers, cgroup_info, cgroup_counters>>
vars == <<sampler, steps, ev, prev, sched_task_group_exists, syscall_lut, irq_lut, lut,
          start, throttling_start, counters, events, perf_counters, numa_counters,
          cgroup_serial_numbers, cgroup_info, cgroup_counters, histograms, cpus>>

\* the maps of the numa sampler
NumaMaps == {"numa_hit", "numa_miss", "numa_foreign", "numa_interleave",
             "numa_local", "numa_other"}

\* per-cgroup maps of the syscall sampler, in family order (family g is entry g+1)
SyscallCgroupMaps ==
    <<"cgroup_syscall_other", "cgroup_syscall_read", "cgroup_syscall_write",
      "cgroup_syscall_poll", "cgroup_syscall_lock", "cgroup_syscall_time",
      "cgroup_syscall_sleep", "cgroup_syscall_socket", "cgroup_syscall_yield",
      "cgroup_syscall_filesystem", "cgroup_syscall_memory",
      "cgroup_syscall_process", "cgroup_syscall_query", "cgroup_syscall_ipc",
      "cgroup_syscall_timer", "cgroup_syscall_event">>

\* latency histograms of the syscall sampler, in family order
SyscallLatencyMaps ==
    <<"other_latency", "read_latency", "write_latency", "poll_latency",
      "lock_latency", "time_latency", "sleep_latency", "socket_latency",
      "yield_latency", "filesystem_latency", "memory_latency",
      "process_latency", "query_latency", "ipc_latency", "timer_latency",
      "event_latency">>

\* per-cgroup maps of the tlb_flush sampler, in reason order
TlbCgroupMaps ==
    <<"cgroup_task_switch", "cgroup_remote_shootdown", "cgroup_local_shootdown",
      "cgroup_local_mm_shootdown", "cgroup_remote_send_ipi">>

ThrottledCgroupMaps == <<"cgroup_throttled_time", "cgroup_throttled_count">>

Range(seq) == {seq[i] : i \in DOMAIN seq}

CgroupMapNames ==
    Range(SyscallCgroupMaps) \cup Range(TlbCgroupMaps) \cup Range(ThrottledCgroupMaps)

HistogramNames == Range(SyscallLatencyMaps) \cup {"latency", "rx_size", "tx_size"}

\* the record of a hook invocation; a field a hook has no use for keeps its default
NoEvent ==
    [hook |-> "none",
     key |-> 0,            \* interval key: thread id, cpu, cgroup id
     sk |-> Zero64,        \* interval key of packet_latency: the socket
     now |-> Zero64,       \* bpf_ktime_get_ns()
     id |-> 0,             \* args->id, or the tlb_flush reason
     cpu |-> 0,            \* bpf_get_smp_processor_id()
     cg |-> 0,             \* cgroup id read from the kernel
     serial |-> Zero64,    \* version tag read from the kernel
     resolved |-> FALSE,   \* an in-range cgroup id was resolved
     changed |-> FALSE,    \* the version check saw a new or changed cgroup
     had_counts |-> FALSE, \* some per-cgroup slot of cg was non-zero on entry
     offered |-> <<>>,     \* records passed to bpf_ringbuf_output
     counted |-> FALSE,    \* array_add was called on the system-wide counters
     idx |-> 0,            \* its index
     delta |-> Zero64,     \* its value
     group |-> 0,          \* classification result
     began |-> FALSE,      \* the hook wrote a start timestamp
     pending |-> FALSE,    \* the hook found a pending start
     dur |-> <<>>,         \* the duration it recorded, if any
     slots |-> <<>>,       \* perf: <<tgid, counter, idx>> of each per-task add
     ret |-> 0]

\* what is kept of the invocation before the last one
Brief(e) ==
    [hook |-> e.hook, key |-> e.key, sk |-> e.sk, now |-> e.now, cg |-> e.cg,
     serial |-> e.serial, resolved |-> e.resolved, changed |-> e.changed,
     began |-> e.began, pending |-> e.pending]

\* a CPU that is not inside a hook
IdleCpu ==
    [pc |-> "idle",
     cgrp |-> [null |-> TRUE, id |-> 0, serial_nr |-> Zero64, level |-> 2,
               name |-> <<"cgroup", 0, 0>>, pname |-> "parent",
               gpname |-> "grandparent"],
     tid |-> 0,            \* the thread running on the CPU
     now |-> Zero64,       \* bpf_ktime_get_ns()
     idx |-> 0,            \* the slot the invocation is about to add to
     is_new |-> FALSE,     \* the version check found a new or changed cgroup
     loaded |-> Zero64,    \* the value the invocation read from the slot
     base |-> Zero64,      \* the slot when the concurrent invocations began
     id |-> 0,             \* args->id, or the tlb_flush reason
     group |-> 0,          \* classification result
     size |-> Zero64,      \* tcp_sendmsg: the size argument
     calls |-> 0,          \* hook invocations begun on the CPU
     at |-> 0,             \* steps when the concurrent invocations began
     duration |-> <<>>,    \* the duration an end hook computed from a pending start
     preferred_nid |-> 0,  \* __zone_statistics: node of preferred_zone
     z_nid |-> 0,          \* __zone_statistics: node of z
     local_nid |-> 0,      \* __zone_statistics: the node taken as local
     nr_account |-> 0,     \* __zone_statistics: the pages accounted (an int)
     stale |-> FALSE,      \* the cached tag differed when the invocation began
     room |-> FALSE,       \* the ring had room when the invocation began
     offered |-> 0,        \* calls of bpf_ringbuf_output by the invocation
     dropped |-> FALSE]    \* bpf_ringbuf_output failed

(***************************************************************************)
(* What the hooks read from the kernel.                                    *)
(***************************************************************************)
\* what a hook reads through current->sched_task_group (or the cgroup of the
\* throttled task): the css id, its version tag, and the names of the hierarchy
TaskGroup(cgroup_id, serial_nr) ==
    [null |-> FALSE, id |-> cgroup_id, serial_nr |-> serial_nr, level |-> 2,
     name |-> <<"cgroup", cgroup_id, serial_nr[1]>>,
     pname |-> "parent", gpname |-> "grandparent"]

\* a task whose cgroup pointer reads as NULL
NullCgroup == [TaskGroup(0, Zero64) EXCEPT !.null = TRUE]

TaskGroups(ids, serials) == {TaskGroup(i, s) : i \in ids, s \in serials}

\* struct cgroup_info as filled by the hooks
CgInfo(tg) ==
    [id |-> tg.id, level |-> tg.level, name |-> tg.name,
     pname |-> tg.pname, gpname |-> tg.gpname]

(***************************************************************************)
(* Cgroup attribution helpers (agent/bpf/cgroup.h and their inline copies). *)
(***************************************************************************)
\* a version check that takes every in-range cgroup for new
always_new_cgroup(serial_map, cgroup_id, serial_nr) == InRange(cgroup_id, MAX_CGROUPS)

\* a version check that takes a cgroup without a cached tag for known
is_changed_cgroup(serial_map, cgroup_id, serial_nr) ==
    /\ InRange(cgroup_id, MAX_CGROUPS)
    /\ ArrayGet(serial_map, cgroup_id) # Zero64
    /\ ArrayGet(serial_map, cgroup_id) # serial_nr

\* elem && *elem != serial_nr
is_new_cgroup(serial_map, cgroup_id, serial_nr) ==
    InRange(cgroup_id, MAX_CGROUPS) /\ ArrayGet(serial_map, cgroup_id) # serial_nr

\* an update that leaves the cached tag as it is
forget_cgroup_serial(serial_map, cgroup_id, serial_nr) == serial_map

update_cgroup_serial(serial_map, cgroup_id, serial_nr) ==
    array_update(serial_map, MAX_CGROUPS, cgroup_id, serial_nr)

\* a re-initialisation that leaves the slot as it is
keep_cgroup_counter(counter_map, cgroup_id) == counter_map

\* a re-initialisation that clears the slot of every cgroup id
clear_cgroup_counter(counter_map, cgroup_id) == EmptyMap

zero_cgroup_counter(counter_map, cgroup_id) ==
    array_update(counter_map, MAX_CGROUPS, cgroup_id, Zero64)

\* zero_cgroup_counter on each of the maps named
zero_cgroup_counters(maps, names, cgroup_id) ==
    [n \in DOMAIN maps |->
        IF n \in names THEN zero_cgroup_counter(maps[n], cgroup_id) ELSE maps[n]]

\* the increment of the event made before the re-initialisation
incr_then_rebase(maps, names, family, cgroup_id, changed) ==
    LET added == [maps EXCEPT ![family] = array_incr(@, MAX_CGROUPS, cgroup_id)]
    IN  IF changed THEN zero_cgroup_counters(added, names, cgroup_id) ELSE added

\* an attribution whose increment lands in a family other than the event's
rebase_then_incr_elsewhere(maps, names, family, cgroup_id, changed) ==
    LET zeroed == IF changed
                  THEN zero_cgroup_counters(maps, names, cgroup_id)
                  ELSE maps
        other == CHOOSE n \in names : n # family
    IN  [zeroed EXCEPT ![other] = array_incr(@, MAX_CGROUPS, cgroup_id)]

\* the per-cgroup maps after an attribution: the slots of the maps named are
\* zeroed inside the version check when it found a change, and the slot of
\* the event's family is incremented after it
rebase_then_incr(maps, names, family, cgroup_id, changed) ==
    LET zeroed == IF changed
                  THEN zero_cgroup_counters(maps, names, cgroup_id)
                  ELSE maps
    IN  [zeroed EXCEPT ![family] = array_incr(@, MAX_CGROUPS, cgroup_id)]

\* an output that fails without a record only after it has emptied a full ring
bpf_ringbuf_output_reset(ringbuf, record) ==
    IF Len(ringbuf) < RingbufRecords THEN Append(ringbuf, record) ELSE <<>>

\* bpf_ringbuf_output: the record is appended, or dropped when the ring is full
bpf_ringbuf_output(ringbuf, record) ==
    IF Len(ringbuf) < RingbufRecords THEN Append(ringbuf, record) ELSE ringbuf

\* some per-cgroup slot of cgroup_id in the maps named is non-zero
HasCounts(maps, names, cgroup_id) ==
    \E n \in names : ArrayGet(maps[n], cgroup_id) # Zero64

(***************************************************************************)
(* Classification table lookup (sys_enter 371-378, sys_exit 526-532,       *)
(* softirq_exit 79-85): the u64 entry is read through a u32 pointer.       *)
(***************************************************************************)
\* a lookup keyed by the raw id of the hook invocation before
classify_stale(table, bound, width, raw_id) ==
    IF InRange(ev.id, bound)
    THEN LET counter_offset == U32Of64(ArrayGet(table, ev.id))
         IN  IF counter_offset # 0 /\ U32Lt(counter_offset, width)
             THEN counter_offset
             ELSE 0
    ELSE 0

classify(table, bound, width, raw_id) ==
    IF InRange(raw_id, bound)
    THEN LET counter_offset == U32Of64(ArrayGet(table, raw_id))
         IN  IF counter_offset # 0 /\ U32Lt(counter_offset, width)
             THEN counter_offset
             ELSE 0
    ELSE 0

(***************************************************************************)
(* Syscall sampler (agent/samplers/syscall/linux/latency/mod.bpf.c).       *)
(***************************************************************************)
\* an end hook that takes every start for pending
never_missed_start(map, max_entries, key) == FALSE

\* !start_ts || *start_ts == 0 : "possible we missed the start"
missed_start(map, max_entries, key) ==
    ~InRange(key, max_entries) \/ ArrayGet(map, key) = Zero64

\* a latency computed the wrong way round
sys_exit_latency_swapped(start_ts, now) == U64Sub(start_ts, now)

\* lat = bpf_ktime_get_ns() - *start_ts
sys_exit_latency(start_ts, now) == U64Sub(now, start_ts)

\* an index computed at the grouping power of the TCP samplers
sys_exit_index_pow4(lat) == value_to_index(lat, TCP_HISTOGRAM_POWER)

\* idx = value_to_index(lat, HISTOGRAM_POWER)
sys_exit_index(lat) == value_to_index(lat, SYSCALL_HISTOGRAM_POWER)

\* an attribution that does not depend on the kernel layout
sys_enter_resolved_any_layout(exists, tg) == tg.id # 0 /\ tg.id < MAX_CGROUPS

\* bpf_core_field_exists(current->sched_task_group), then
\* cgroup_id && cgroup_id < MAX_CGROUPS
sys_enter_resolved(exists, tg) == exists /\ tg.id # 0 /\ tg.id < MAX_CGROUPS

sys_enter(tid, ts, args_id, cpu, tg) ==
    /\ sampler = "syscall"
    /\ steps < MaxEvents
    /\ steps' = steps + 1
    /\ prev' = Brief(ev)
    /\ start' = array_update(start, MAX_PID, tid, ts)
    /\ UNCHANGED <<sampler, cpus, luts, perf_counters, numa_counters, throttling_start, events, histograms>>
    /\ IF args_id < 0
       THEN /\ UNCHANGED <<counters, attribution>>
            /\ ev' = [NoEvent EXCEPT !.hook = "sys_enter", !.key = tid, !.now = ts,
                                     !.id = args_id, !.cpu = cpu, !.began = TRUE,
                                     !.pending = ArrayGet(start, tid) # Zero64]
       ELSE LET group == classify(syscall_lut, MAX_SYSCALL_ID,
                                  SYSCALL_COUNTER_GROUP_WIDTH, args_id)
                offset == SYSCALL_COUNTER_GROUP_WIDTH * cpu
                idx == offset + group
                resolved == sys_enter_resolved(sched_task_group_exists, tg)
                changed == resolved
                           /\ is_new_cgroup(cgroup_serial_numbers, tg.id, tg.serial_nr)
                names == Range(SyscallCgroupMaps)
                zeroed == IF changed
                          THEN zero_cgroup_counters(cgroup_counters, names, tg.id)
                          ELSE cgroup_counters
                family == SyscallCgroupMaps[group + 1]
            IN  /\ counters' = array_incr(counters,
                                          MAX_CPUS * SYSCALL_COUNTER_GROUP_WIDTH, idx)
                /\ cgroup_info' = IF changed
                                  THEN bpf_ringbuf_output(cgroup_info, CgInfo(tg))
                                  ELSE cgroup_info
                /\ cgroup_serial_numbers' =
                       IF changed
                       THEN update_cgroup_serial(cgroup_serial_numbers, tg.id,
                                                 tg.serial_nr)
                       ELSE cgroup_serial_numbers
                /\ cgroup_counters' =
                       IF resolved
                       THEN rebase_then_incr(cgroup_counters, names, family,
                                             tg.id, changed)
                       ELSE cgroup_counters
                /\ ev' = [NoEvent EXCEPT
                            !.hook = "sys_enter", !.key = tid, !.now = ts,
                            !.id = args_id, !.cpu = cpu, !.began = TRUE,
                            !.pending = ArrayGet(start, tid) # Zero64,
                            !.cg = tg.id, !.serial = tg.serial_nr,
                            !.resolved = resolved, !.changed = changed,
                            !.had_counts = resolved
                                /\ HasCounts(cgroup_counters, names, tg.id),
                            !.offered = IF changed THEN <<CgInfo(tg)>> ELSE <<>>,
                            !.counted = TRUE, !.idx = idx, !.delta = U64(1),
                            !.group = group]

\* one histogram for every family
latency_histogram_shared(group) == "other_latency"

\* switch (group): case 1 .. case 15 name the histogram of the family, and
\* default is other_latency
latency_histogram(group) ==
    IF group \in 1..15 THEN SyscallLatencyMaps[group + 1] ELSE "other_latency"

sys_exit(tid, now, args_id) ==
    /\ sampler = "syscall"
    /\ steps < MaxEvents
    /\ steps' = steps + 1
    /\ prev' = Brief(ev)
    /\ UNCHANGED <<sampler, cpus, luts, perf_counters, numa_counters, throttling_start, counters, events, attribution>>
    /\ LET start_ts == ArrayGet(start, tid)
           pending == ~missed_start(start, MAX_PID, tid)
           lat == sys_exit_latency(start_ts, now)
           idx == sys_exit_index(lat)
           group == classify(syscall_lut, MAX_SYSCALL_ID,
                             SYSCALL_COUNTER_GROUP_WIDTH, args_id)
       IN  IF args_id < 0
           THEN /\ UNCHANGED <<start, histograms>>
                /\ ev' = [NoEvent EXCEPT !.hook = "sys_exit", !.key = tid,
                                         !.now = now, !.id = args_id,
                                         !.pending = pending]
           ELSE IF ~pending
           THEN /\ UNCHANGED <<start, histograms>>
                /\ ev' = [NoEvent EXCEPT !.hook = "sys_exit", !.key = tid,
                                         !.now = now, !.id = args_id]
           ELSE /\ start' = ArrayPut(start, tid, Zero64)
                /\ histograms' =
                       [histograms EXCEPT ![latency_histogram(group)] =
                           array_incr(@, SYSCALL_HISTOGRAM_BUCKETS, idx)]
                /\ ev' = [NoEvent EXCEPT !.hook = "sys_exit", !.key = tid,
                                         !.now = now, !.id = args_id,
                                         !.pending = TRUE, !.dur = <<lat>>,
                                         !.idx = idx, !.group = group]

(***************************************************************************)
(* Softirq sampler (samplers/softirq/linux/time/mod.bpf.c).                *)
(***************************************************************************)
\* dur = bpf_ktime_get_ns() - *start_ts
softirq_duration(start_ts, now) == U64Sub(now, start_ts)

softirq_enter(cpu, ts) ==
    /\ sampler = "softirq"
    /\ steps < MaxEvents
    /\ steps' = steps + 1
    /\ prev' = Brief(ev)
    /\ start' = array_update(start, MAX_CPUS, cpu, ts)
    /\ UNCHANGED <<sampler, cpus, luts, perf_counters, numa_counters, throttling_start, counters, events, attribution,
                   histograms>>
    /\ ev' = [NoEvent EXCEPT !.hook = "softirq_enter", !.key = cpu, !.cpu = cpu,
                             !.now = ts, !.began = TRUE,
                             !.pending = ArrayGet(start, cpu) # Zero64]

softirq_exit(cpu, now) ==
    /\ sampler = "softirq"
    /\ steps < MaxEvents
    /\ steps' = steps + 1
    /\ prev' = Brief(ev)
    /\ UNCHANGED <<sampler, cpus, luts, perf_counters, numa_counters, throttling_start, events, attribution, histograms>>
    /\ LET start_ts == ArrayGet(start, cpu)
           pending == ~missed_start(start, MAX_CPUS, cpu)
           dur == softirq_duration(start_ts, now)
           offset == SOFTIRQ_COUNTER_GROUP_WIDTH * cpu
           irq_id == 0
           group == classify(irq_lut, MAX_IRQS, SOFTIRQ_COUNTER_GROUP_WIDTH, irq_id)
           idx == offset + group
       IN  IF ~pending
           THEN /\ UNCHANGED <<start, counters>>
                /\ ev' = [NoEvent EXCEPT !.hook = "softirq_exit", !.key = cpu,
                                         !.cpu = cpu, !.now = now]
           ELSE /\ counters' = array_add(counters,
                                         MAX_CPUS * SOFTIRQ_COUNTER_GROUP_WIDTH,
                                         idx, dur)
                /\ start' = ArrayPut(start, cpu, Zero64)
                /\ ev' = [NoEvent EXCEPT !.hook = "softirq_exit", !.key = cpu,
                                         !.cpu = cpu, !.now = now,
                                         !.pending = TRUE, !.dur = <<dur>>,
                                         !.counted = TRUE, !.idx = idx,
                                         !.delta = dur, !.group = group]

(***************************************************************************)
(* Throttled sampler (agent/samplers/cpu/linux/throttled/mod.bpf.c).       *)
(***************************************************************************)
\* the cgroup pointer and id checks every hook starts with
throttled_resolved(cgrp) ==
    ~cgrp.null /\ cgrp.id # 0 /\ InRange(cgrp.id, MAX_CGROUPS)

\* !elem || *elem != serial_nr
throttled_is_new(serial_map, cgroup_id, serial_nr) ==
    ~InRange(cgroup_id, MAX_CGROUPS) \/ ArrayGet(serial_map, cgroup_id) # serial_nr

\* update_cgroup_metadata: the attribution state it leaves, as
\* <<cgroup_serial_numbers, cgroup_info, cgroup_counters>>
update_cgroup_metadata(cgrp, cgroup_id) ==
    IF cgrp.null \/ cgroup_id = 0 \/ ~InRange(cgroup_id, MAX_CGROUPS)
    THEN attribution
    ELSE IF throttled_is_new(cgroup_serial_numbers, cgroup_id, cgrp.serial_nr)
    THEN <<array_update(cgroup_serial_numbers, MAX_CGROUPS, cgroup_id,
                        cgrp.serial_nr),
           bpf_ringbuf_output(cgroup_info, CgInfo(cgrp)),
           zero_cgroup_counters(cgroup_counters, Range(ThrottledCgroupMaps),
                                cgroup_id)>>
    ELSE attribution

\* duration = 0; if (*start_ts <= ts) duration = ts - *start_ts
throttle_duration(start_ts, ts) ==
    IF U64Le(start_ts, ts) THEN U64Sub(ts, start_ts) ELSE Zero64

\* what the version check of update_cgroup_metadata saw, for the event record
ThrottledAttribution(e, cgrp) ==
    LET changed == throttled_is_new(cgroup_serial_numbers, cgrp.id, cgrp.serial_nr)
    IN  [e EXCEPT !.cg = cgrp.id, !.serial = cgrp.serial_nr, !.resolved = TRUE,
                  !.changed = changed,
                  !.had_counts = HasCounts(cgroup_counters,
                                           Range(ThrottledCgroupMaps), cgrp.id),
                  !.offered = IF changed THEN <<CgInfo(cgrp)>> ELSE <<>>]

\* cpu_cfs_throttle_enter and tg_throttle_down_enter: the same body
ThrottleBegin(hook, cgrp, ts) ==
    /\ sampler = "throttled"
    /\ steps < MaxEvents
    /\ steps' = steps + 1
    /\ prev' = Brief(ev)
    /\ UNCHANGED <<sampler, cpus, luts, perf_counters, numa_counters, start, counters, events, histograms>>
    /\ LET e == [NoEvent EXCEPT !.hook = hook, !.key = cgrp.id, !.now = ts,
                                !.cg = cgrp.id, !.serial = cgrp.serial_nr]
           after == update_cgroup_metadata(cgrp, cgrp.id)
       IN  IF ~throttled_resolved(cgrp)
           THEN /\ UNCHANGED <<throttling_start, attribution>>
                /\ ev' = e
           ELSE /\ throttling_start' =
                       array_update(throttling_start, MAX_CGROUPS, cgrp.id, ts)
                /\ cgroup_serial_numbers' = after[1]
                /\ cgroup_info' = after[2]
                /\ cgroup_counters' =
                       [after[3] EXCEPT !["cgroup_throttled_count"] =
                           array_incr(@, MAX_CGROUPS, cgrp.id)]
                /\ ev' = [ThrottledAttribution(e, cgrp) EXCEPT
                            !.began = TRUE,
                            !.pending = ArrayGet(throttling_start, cgrp.id) # Zero64]

\* cpu_cfs_unthrottle_enter (attributes = FALSE) and tg_throttle_up_enter
\* (attributes = TRUE, it calls update_cgroup_metadata first): the same body
ThrottleEnd(hook, attributes, cgrp, ts) ==
    /\ sampler = "throttled"
    /\ steps < MaxEvents
    /\ steps' = steps + 1
    /\ prev' = Brief(ev)
    /\ UNCHANGED <<sampler, cpus, luts, perf_counters, numa_counters, start, counters, events, histograms>>
    /\ LET e == [NoEvent EXCEPT !.hook = hook, !.key = cgrp.id, !.now = ts,
                                !.cg = cgrp.id, !.serial = cgrp.serial_nr]
           after == IF attributes THEN update_cgroup_metadata(cgrp, cgrp.id)
                    ELSE attribution
           e1 == IF attributes THEN ThrottledAttribution(e, cgrp)
                 ELSE [e EXCEPT !.resolved = TRUE]
           start_ts == ArrayGet(throttling_start, cgrp.id)
           duration == throttle_duration(start_ts, ts)
       IN  IF ~throttled_resolved(cgrp)
           THEN /\ UNCHANGED <<throttling_start, attribution>>
                /\ ev' = e
           ELSE /\ cgroup_serial_numbers' = after[1]
                /\ cgroup_info' = after[2]
                /\ IF missed_start(throttling_start, MAX_CGROUPS, cgrp.id)
                   THEN /\ cgroup_counters' = after[3]
                        /\ UNCHANGED throttling_start
                        /\ ev' = e1
                   ELSE /\ cgroup_counters' =
                               [after[3] EXCEPT !["cgroup_throttled_time"] =
                                   array_add(@, MAX_CGROUPS, cgrp.id, duration)]
                        /\ throttling_start' =
                               array_update(throttling_start, MAX_CGROUPS,
                                            cgrp.id, Zero64)
                        /\ ev' = [e1 EXCEPT !.pending = TRUE, !.dur = <<duration>>]

cpu_cfs_throttle_enter(cgrp, ts) == ThrottleBegin("cpu_cfs_throttle_enter", cgrp, ts)

tg_throttle_down_enter(cgrp, ts) == ThrottleBegin("tg_throttle_down_enter", cgrp, ts)

cpu_cfs_unthrottle_enter(cgrp, ts) ==
    ThrottleEnd("cpu_cfs_unthrottle_enter", FALSE, cgrp, ts)

tg_throttle_up_enter(cgrp, ts) == ThrottleEnd("tg_throttle_up_enter", TRUE, cgrp, ts)

(***************************************************************************)
(* TCP packet latency sampler (samplers/tcp/linux/packet_latency).         *)
(***************************************************************************)
\* !mask || sock_ident & *mask : the socket is not sampled
tcp_filtered(sock_ident) == U64And(sock_ident, ArrayGet(lut, 0)) # Zero64

\* an index computed at the grouping power of the syscall sampler
tcp_latency_index_pow3(delta_ns) == value_to_index(delta_ns, SYSCALL_HISTOGRAM_POWER)

\* idx = value_to_index(delta_ns, HISTOGRAM_POWER)
tcp_latency_index(delta_ns) == value_to_index(delta_ns, TCP_HISTOGRAM_POWER)

handle_tcp_probe(sk, payload, ts) ==
    /\ sampler = "packet_latency"
    /\ steps < MaxEvents
    /\ steps' = steps + 1
    /\ prev' = Brief(ev)
    /\ UNCHANGED <<sampler, cpus, luts, perf_counters, numa_counters, throttling_start, counters, events, attribution,
                   histograms>>
    /\ LET e == [NoEvent EXCEPT !.hook = "handle_tcp_probe", !.sk = sk, !.now = ts,
                                !.pending = sk \in DOMAIN start]
       IN  IF tcp_filtered(sk) \/ ~payload
           THEN /\ UNCHANGED start
                /\ ev' = e
           ELSE /\ start' = hash_update(start, MAX_ENTRIES, sk, ts, NO_EXIST)
                /\ ev' = [e EXCEPT !.began = TRUE]

handle_tcp_rcv_space_adjust(sk, now) ==
    /\ sampler = "packet_latency"
    /\ steps < MaxEvents
    /\ steps' = steps + 1
    /\ prev' = Brief(ev)
    /\ UNCHANGED <<sampler, cpus, luts, perf_counters, numa_counters, throttling_start, counters, events, attribution>>
    /\ LET e == [NoEvent EXCEPT !.hook = "handle_tcp_rcv_space_adjust", !.sk = sk,
                                !.now = now]
       IN  IF tcp_filtered(sk) \/ sk \notin DOMAIN start
           THEN /\ UNCHANGED <<start, histograms>>
                /\ ev' = e
           ELSE LET tsp == start[sk]
                    delta_ns == U64Sub(now, tsp)
                    idx == tcp_latency_index(delta_ns)
                IN  /\ start' = hash_delete(start, sk)
                    /\ IF U64Lt(tsp, now)
                       THEN /\ histograms' =
                                   [histograms EXCEPT !["latency"] =
                                       array_incr(@, TCP_HISTOGRAM_BUCKETS, idx)]
                            /\ ev' = [e EXCEPT !.pending = TRUE, !.idx = idx,
                                               !.dur = <<delta_ns>>]
                       ELSE /\ UNCHANGED histograms
                            /\ ev' = [e EXCEPT !.pending = TRUE]

handle_tcp_destroy_sock(sk) ==
    /\ sampler = "packet_latency"
    /\ steps < MaxEvents
    /\ steps' = steps + 1
    /\ prev' = Brief(ev)
    /\ UNCHANGED <<sampler, cpus, luts, perf_counters, numa_counters, throttling_start, counters, events, attribution,
                   histograms>>
    /\ start' = hash_delete(start, sk)
    /\ ev' = [NoEvent EXCEPT !.hook = "handle_tcp_destroy_sock", !.sk = sk,
                             !.pending = sk \in DOMAIN start]

(***************************************************************************)
(* TLB flush sampler (agent/samplers/cpu/linux/tlb_flush/mod.bpf.c).       *)
(***************************************************************************)
\* a read that accepts every cgroup id
read_cgroup_info_unchecked(tg) == ~tg.null

\* read_cgroup_info(current, &cginfo) == 0
read_cgroup_info(tg) == ~tg.null /\ tg.id # 0 /\ tg.id < MAX_CGROUPS

tlb_flush(reason, cpu, tg) ==
    /\ sampler = "tlb_flush"
    /\ steps < MaxEvents
    /\ steps' = steps + 1
    /\ prev' = Brief(ev)
    /\ UNCHANGED <<sampler, cpus, luts, perf_counters, numa_counters, start, throttling_start, counters, histograms>>
    /\ LET offset == TLB_COUNTER_GROUP_WIDTH * cpu
           idx == reason + offset
           resolved == sched_task_group_exists /\ read_cgroup_info(tg)
           changed == resolved
                      /\ is_new_cgroup(cgroup_serial_numbers, tg.id, tg.serial_nr)
           names == Range(TlbCgroupMaps)
           zeroed == IF changed
                     THEN zero_cgroup_counters(cgroup_counters, names, tg.id)
                     ELSE cgroup_counters
       IN  /\ events' = array_incr(events, MAX_CPUS * TLB_COUNTER_GROUP_WIDTH, idx)
           /\ cgroup_info' = IF changed
                             THEN bpf_ringbuf_output(cgroup_info, CgInfo(tg))
                             ELSE cgroup_info
           /\ cgroup_serial_numbers' =
                  IF changed
                  THEN update_cgroup_serial(cgroup_serial_numbers, tg.id, tg.serial_nr)
                  ELSE cgroup_serial_numbers
           /\ cgroup_counters' =
                  IF resolved /\ reason \in 0..(Len(TlbCgroupMaps) - 1)
                  THEN rebase_then_incr(cgroup_counters, names,
                                        TlbCgroupMaps[reason + 1], tg.id, changed)
                  ELSE zeroed
           /\ ev' = [NoEvent EXCEPT
                       !.hook = "tlb_flush", !.id = reason, !.cpu = cpu,
                       !.cg = tg.id, !.serial = tg.serial_nr,
                       !.resolved = resolved, !.changed = changed,
                       !.had_counts = resolved
                           /\ HasCounts(cgroup_counters, names, tg.id),
                       !.offered = IF changed THEN <<CgInfo(tg)>> ELSE <<>>,
                       !.counted = TRUE, !.idx = idx, !.delta = U64(1),
                       !.group = reason]

(***************************************************************************)
(* TCP traffic sampler (samplers/tcp/linux/traffic/mod.bpf.c).             *)
(***************************************************************************)
\* idx = value_to_index((u64) size, HISTOGRAM_POWER)
tcp_size_index(size) == value_to_index(size, TRAFFIC_HISTOGRAM_POWER)

\* the body the two hooks share: bytes, packets and the size histogram
TrafficObserve(hook, family, cpu, size, bytes_group, packets_group, histogram) ==
    /\ sampler = "traffic"
    /\ steps < MaxEvents
    /\ steps' = steps + 1
    /\ prev' = Brief(ev)
    /\ UNCHANGED <<sampler, cpus, luts, perf_counters, numa_counters, start, throttling_start, events, attribution>>
    /\ LET e == [NoEvent EXCEPT !.hook = hook, !.id = family, !.cpu = cpu]
           cpu_idx == TRAFFIC_COUNTER_GROUP_WIDTH * cpu
           idx == tcp_size_index(size)
       IN  IF family # AF_INET /\ family # AF_INET6
           THEN /\ UNCHANGED <<counters, histograms>>
                /\ ev' = e
           ELSE /\ counters' =
                       array_incr(array_add(counters, TRAFFIC_COUNTERS,
                                            cpu_idx + bytes_group, size),
                                  TRAFFIC_COUNTERS, cpu_idx + packets_group)
                /\ histograms' =
                       [histograms EXCEPT ![histogram] =
                           array_incr(@, TRAFFIC_HISTOGRAM_BUCKETS, idx)]
                /\ ev' = [e EXCEPT !.dur = <<size>>, !.idx = idx,
                                   !.delta = size, !.group = bytes_group]

tcp_sendmsg(family, cpu, size) ==
    TrafficObserve("tcp_sendmsg", family, cpu, size, TCP_TX_BYTES, TCP_TX_PACKETS,
                   "tx_size")

\* copied is an int: nothing is recorded unless it is positive
tcp_cleanup_rbuf(family, cpu, copied) ==
    IF copied <= 0
    THEN /\ sampler = "traffic"
         /\ steps < MaxEvents
         /\ steps' = steps + 1
         /\ prev' = Brief(ev)
         /\ ev' = [NoEvent EXCEPT !.hook = "tcp_cleanup_rbuf", !.id = family,
                                  !.cpu = cpu]
         /\ UNCHANGED <<sampler, cpus, luts, perf_counters, numa_counters, start, throttling_start, counters, events,
                        attribution, histograms>>
    ELSE TrafficObserve("tcp_cleanup_rbuf", family, cpu, U64(copied), TCP_RX_BYTES,
                        TCP_RX_PACKETS, "rx_size")

(***************************************************************************)
(* Perf sampler (samplers/cpu/linux/perf/mod.bpf.c).                       *)
(***************************************************************************)
\* idx = tgid + CYCLES; idx = tgid + INSTRUCTIONS
task_counter_idx(tgid, counter) == tgid + counter

\* One hardware counter of handle__sched_switch, on the maps
\* <<perf_counters, counters, slots written>>: the reading replaces the
\* previous reading of the CPU and the difference is added to the slot of the
\* task.  bpf_map_lookup_elem(&counters, idx) passes the index itself where
\* the helper takes a pointer to it, so what that lookup returns is not
\* defined by the source: found is whether it returned the entry of idx.
perf_account(maps, processor_id, tgid, counter, reading, found) ==
    LET idx == PERF_COUNTER_GROUP_WIDTH * processor_id + counter
        capacity == MAX_PID * PERF_COUNTER_GROUP_WIDTH
        task_idx == task_counter_idx(tgid, counter)
    IN  IF ~InRange(idx, MAX_CPUS * PERF_COUNTER_GROUP_WIDTH)
        THEN maps
        ELSE LET delta == U64Sub(reading, ArrayGet(maps[1], idx))
             IN  IF found /\ InRange(task_idx, capacity)
                 THEN <<ArrayPut(maps[1], idx, reading),
                        array_add(maps[2], capacity, task_idx, delta),
                        Append(maps[3], <<tgid, counter, task_idx>>)>>
                 ELSE <<ArrayPut(maps[1], idx, reading), maps[2], maps[3]>>

\* tp_btf/sched_switch: prev is switched out on processor_id in the given
\* state; c and i are the cycles and instructions read on that CPU
handle__sched_switch(processor_id, state, tgid, c, i, found_c, found_i) ==
    /\ sampler = "perf"
    /\ steps < MaxEvents
    /\ steps' = steps + 1
    /\ prev' = Brief(ev)
    /\ UNCHANGED <<sampler, cpus, luts, numa_counters, start, throttling_start, events, attribution,
                   histograms>>
    /\ LET e == [NoEvent EXCEPT !.hook = "handle__sched_switch", !.key = tgid,
                                !.cpu = processor_id, !.id = state]
           cycles == perf_account(<<perf_counters, counters, <<>>>>, processor_id,
                                  tgid, CYCLES, c, found_c)
           instructions == perf_account(cycles, processor_id, tgid, INSTRUCTIONS,
                                        i, found_i)
       IN  IF state # TASK_RUNNING
           THEN /\ UNCHANGED <<perf_counters, counters>>
                /\ ev' = e
           ELSE /\ perf_counters' = instructions[1]
                /\ counters' = instructions[2]
                /\ ev' = [e EXCEPT !.slots = instructions[3]]

\* the external reader takes the oldest record off the metadata ring
reader_drain ==
    /\ cgroup_info # <<>>
    /\ cgroup_info' = Tail(cgroup_info)
    /\ UNCHANGED <<sampler, cpus, steps, ev, prev, luts, perf_counters, numa_counters, start, throttling_start, counters,
                   events, cgroup_serial_numbers, cgroup_counters, histograms>>

(***************************************************************************)
(* Sessions: the loader fills the tables, one sampler is attached, and     *)
(* hooks run one after the other.  Three families of sessions are          *)
(* explored, each drawing all values of the inputs it is about and holding *)
(* the other inputs at a default event.                                    *)
(***************************************************************************)
DefaultTime == U64(1000)
DefaultGroup == TaskGroup(1, U64(3))

Times == {Zero64} \cup {U64(1000 + 500 * i) : i \in 0..(NumTimes - 1)}
Tids == 1..NumKeys
Socks == {U64(4096 * k) : k \in 1..NumKeys} \cup {U64(4096 + 256)}
SampleMasks == {Zero64, U64(256)}
tcp_filtered256(sk) == U64And(sk, U64(256)) # Zero64
Serials == {Zero64} \cup {U64(2 + i) : i \in 1..NumSerials}
Cpus == {MAX_CPUS} \cup 0..(NumCpus - 1)
SyscallIds == {-1, MAX_SYSCALL_ID} \cup 1..NumSyscalls
TlbReasons == {-1, TLB_COUNTER_GROUP_WIDTH} \cup 0..NumSyscalls

\* the cgroups events come from: in-range ids under every version tag, and
\* the ids no hook attributes
AttributionGroups ==
    TaskGroups(1..NumCgroups, Serials)
    \cup {TaskGroup(0, U64(3)), TaskGroup(MAX_CGROUPS, U64(3)), NullCgroup}

\* a table as the loader leaves it: the zero entries are the unpopulated ones
Loaded(table) == [k \in {x \in DOMAIN table : table[x] # Zero64} |-> table[k]]

\* every syscall id in use classified into its own family
IdentityLut == [k \in 1..NumSyscalls |-> U64(k)]

\* table entries: unpopulated, a family, the first invalid family, and a
\* 64-bit value whose low half looks like a family
LutValues == {Zero64, U64(1), U64(SYSCALL_COUNTER_GROUP_WIDTH), <<2, 0, 1, 0>>}
IrqLutValues == {Zero64, U64(1), U64(SOFTIRQ_COUNTER_GROUP_WIDTH), <<2, 0, 1, 0>>}

InitMaps ==
    /\ steps = 0
    /\ ev = NoEvent
    /\ prev = Brief(NoEvent)
    /\ start = EmptyMap
    /\ throttling_start = EmptyMap
    /\ counters = EmptyMap
    /\ events = EmptyMap
    /\ perf_counters = EmptyMap
    /\ numa_counters = [n \in NumaMaps |-> EmptyMap]
    /\ cgroup_serial_numbers = EmptyMap
    /\ cgroup_info = <<>>
    /\ cgroup_counters = [n \in CgroupMapNames |-> EmptyMap]
    /\ histograms = [n \in HistogramNames |-> EmptyMap]
    /\ cpus = [c \in 1..NumRunning |-> IdleCpu]

\* a step that is one hook invocation (not the reader)
HookStep == steps' = steps + 1

(***************************************************************************)
(* Interval sessions: begin, end and teardown hooks of the four trackers,  *)
(* over every key and clock value.                                         *)
(***************************************************************************)
IntervalSamplers == {"syscall", "softirq", "throttled", "packet_latency"}

SyscallIntervalInputs ==
    {<<tid, ts, 1>> : tid \in Tids, ts \in Times} \cup {<<1, DefaultTime, -1>>}

ThrottledIntervalInputs ==
    {<<TaskGroup(id, U64(3)), ts>> : id \in 1..NumKeys, ts \in Times}
    \cup {<<TaskGroup(1, U64(4)), DefaultTime>>}

\* the sockets of a session: a socket the mask filters out exists only under
\* a non-zero mask
SessionSocks == {sk \in Socks : ArrayGet(lut, 0) # Zero64 \/ ~tcp_filtered256(sk)}

\* the clock values of the sessions of a tracker that has no IDLE sentinel
ClockTimes == Times \ {Zero64}

TcpProbeInputs ==
    {<<sk, TRUE, ts>> : sk \in SessionSocks, ts \in ClockTimes}
    \cup {<<U64(4096), FALSE, DefaultTime>>}

InitInterval ==
    /\ InitMaps
    /\ sampler \in IntervalSamplers
    /\ sched_task_group_exists = TRUE
    /\ syscall_lut = IF sampler = "syscall" THEN Loaded(IdentityLut) ELSE EmptyMap
    /\ irq_lut = EmptyMap
    /\ lut \in IF sampler = "packet_latency"
               THEN {Loaded([k \in {0} |-> m]) : m \in SampleMasks}
               ELSE {EmptyMap}

NextInterval ==
    \/ \E i \in SyscallIntervalInputs : sys_enter(i[1], i[2], i[3], 0, DefaultGroup)
    \/ \E i \in SyscallIntervalInputs : sys_exit(i[1], i[2], i[3])
    \/ \E cpu \in 0..(NumKeys - 1), ts \in Times : softirq_enter(cpu, ts)
    \/ \E cpu \in 0..(NumKeys - 1), now \in Times : softirq_exit(cpu, now)
    \/ \E i \in ThrottledIntervalInputs : cpu_cfs_throttle_enter(i[1], i[2])
    \/ \E i \in ThrottledIntervalInputs : cpu_cfs_unthrottle_enter(i[1], i[2])
    \/ \E i \in ThrottledIntervalInputs : tg_throttle_up_enter(i[1], i[2])
    \/ tg_throttle_down_enter(DefaultGroup, DefaultTime)
    \/ \E i \in TcpProbeInputs : handle_tcp_probe(i[1], i[2], i[3])
    \/ \E sk \in SessionSocks, now \in ClockTimes :
          handle_tcp_rcv_space_adjust(sk, now)
    \/ \E sk \in SessionSocks : handle_tcp_destroy_sock(sk)

SpecInterval == InitInterval /\ [][NextInterval]_vars

(***************************************************************************)
(* Attribution sessions: the hooks that attribute events to cgroups, over  *)
(* every cgroup id and version tag, with the reader draining the ring.     *)
(***************************************************************************)
AttributionSamplers == {"syscall", "tlb_flush", "throttled"}

InitAttribution ==
    /\ InitMaps
    /\ sampler \in AttributionSamplers
    /\ sched_task_group_exists \in
          IF sampler = "throttled" THEN {TRUE} ELSE BOOLEAN
    /\ syscall_lut = IF sampler = "syscall" THEN Loaded(IdentityLut) ELSE EmptyMap
    /\ irq_lut = EmptyMap
    /\ lut = EmptyMap

\* every cgroup under one kind of event, and every kind of event in one cgroup
AttributionInputs(kinds, kind) ==
    {<<kind, tg>> : tg \in AttributionGroups} \cup {<<k, DefaultGroup>> : k \in kinds}

NextAttribution ==
    \/ \E i \in AttributionInputs(1..NumSyscalls \cup {MAX_SYSCALL_ID}, 1) :
          sys_enter(1, DefaultTime, i[1], 0, i[2])
    \/ \E i \in AttributionInputs(0..NumSyscalls, 0) : tlb_flush(i[1], 0, i[2])
    \/ \E tg \in AttributionGroups : cpu_cfs_throttle_enter(tg, DefaultTime)
    \/ cpu_cfs_unthrottle_enter(DefaultGroup, U64(1500))
    \/ \E tg \in AttributionGroups : tg_throttle_up_enter(tg, U64(1500))
    \/ tg_throttle_down_enter(DefaultGroup, DefaultTime)
    \/ reader_drain

SpecAttribution == InitAttribution /\ [][NextAttribution]_vars

(***************************************************************************)
(* Scope sessions: the attributing hooks of one sampler, one after the     *)
(* other, for tasks of several cgroup ids under two version tags each.     *)
(***************************************************************************)
ScopeGroups == TaskGroups(1..(NumCgroups + 1), {U64(3), U64(4)})

NextScope ==
    \/ \E tg \in ScopeGroups : sys_enter(1, DefaultTime, 1, 0, tg)
    \/ \E tg \in ScopeGroups : tlb_flush(1, 0, tg)
    \/ \E tg \in ScopeGroups : cpu_cfs_throttle_enter(tg, DefaultTime)
    \/ \E tg \in ScopeGroups : tg_throttle_up_enter(tg, U64(1500))

SpecScope == InitAttribution /\ [][NextScope]_vars

(***************************************************************************)
(* Counter sessions: the hooks that index the per-CPU counter banks and    *)
(* the classification tables, over every table content, raw id and cpu.    *)
(***************************************************************************)
CounterSamplers == {"syscall", "softirq", "tlb_flush"}

InitCounters ==
    /\ InitMaps
    /\ sampler \in CounterSamplers
    /\ sched_task_group_exists = TRUE
    /\ syscall_lut \in IF sampler = "syscall"
                       THEN {Loaded(t) : t \in [1..NumSyscalls -> LutValues]}
                       ELSE {EmptyMap}
    /\ irq_lut \in IF sampler = "softirq"
                   THEN {Loaded([k \in {0} |-> v]) : v \in IrqLutValues}
                   ELSE {EmptyMap}
    /\ lut = EmptyMap

NextCounters ==
    \/ \E id \in SyscallIds, cpu \in Cpus :
          sys_enter(1, DefaultTime, id, cpu, DefaultGroup)
    \/ \E id \in SyscallIds : sys_exit(1, U64(1500), id)
    \/ \E cpu \in Cpus : softirq_enter(cpu, DefaultTime)
    \/ \E cpu \in Cpus : softirq_exit(cpu, U64(1500))
    \/ \E reason \in TlbReasons, cpu \in Cpus : tlb_flush(reason, cpu, DefaultGroup)

SpecCounters == InitCounters /\ [][NextCounters]_vars

(***************************************************************************)
(* Histogram sessions: the hooks that observe a value in a histogram, over *)
(* the values at the edges of the buckets: every value of the 1:1 range,   *)
(* and the first and last value of the first, second and last bucket of    *)
(* the lowest octaves, of the last octave the bucket array holds, of the   *)
(* one after it and of the highest octave of a u64.                        *)
(***************************************************************************)
HistogramSamplers == {"syscall", "packet_latency", "traffic"}

\* the highest octave [2^k, 2^(k+1)) that an array of `buckets` buckets holds
LastOctave(p, buckets) == buckets \div 2^p + p - 2

\* the octaves probed, for values that reach octave top at most
Octaves(p, buckets, top) ==
    p..(p + NumOctaves - 1)
    \cup {k \in {LastOctave(p, buckets), LastOctave(p, buckets) + 1, top} : k <= top}

\* the first (last = FALSE) or last value of sub-bucket j of octave k
BucketEdge(p, k, j, last) ==
    LET lo == U64Shl(U64(2^p + j), k - p)
    IN  IF last THEN U64Add(lo, U64Sub(U64Shl(U64(1), k - p), U64(1))) ELSE lo

HistogramValues(p, buckets, top) ==
    {U64(n) : n \in 0..(2^p - 1)}
    \cup {BucketEdge(p, k, j, last) :
             k \in Octaves(p, buckets, top), j \in {0, 1, 2^p - 1},
             last \in BOOLEAN}

\* a latency is any difference of two u64 clock values
SyscallLatencies ==
    HistogramValues(SYSCALL_HISTOGRAM_POWER, SYSCALL_HISTOGRAM_BUCKETS, 63)
TcpLatencies == HistogramValues(TCP_HISTOGRAM_POWER, TCP_HISTOGRAM_BUCKETS, 63)

\* the kernel passes tcp_sendmsg a size, and tcp_cleanup_rbuf a count, that an
\* int holds: no octave above [2^30, 2^31)
TrafficSizes ==
    HistogramValues(TRAFFIC_HISTOGRAM_POWER, TRAFFIC_HISTOGRAM_BUCKETS, 30)

\* the sizes of a session: any size in its first event, then the same size
\* again or the next larger one after an event that observed a size, and one
\* byte after an event that observed nothing
Following(e, values) ==
    IF steps = 0 THEN values
    ELSE IF e.dur = <<>> THEN {U64(1)}
    ELSE {v \in values :
            \/ v = e.dur[1]
            \/ /\ U64Lt(e.dur[1], v)
               /\ \A u \in values : ~(U64Lt(e.dur[1], u) /\ U64Lt(u, v))}

\* a size as the int of tcp_cleanup_rbuf
Copied(size) == size[1] + size[2] * LIMB

AddressFamilies == {AF_INET, AF_INET6, 1}

InitHistogram ==
    /\ InitMaps
    /\ sampler \in HistogramSamplers
    /\ sched_task_group_exists = TRUE
    /\ syscall_lut = IF sampler = "syscall" THEN Loaded(IdentityLut) ELSE EmptyMap
    /\ irq_lut = EmptyMap
    /\ lut = EmptyMap

NextHistogram ==
    \/ sys_enter(1, DefaultTime, 1, 0, DefaultGroup)
    \/ \E lat \in SyscallLatencies :
          sys_exit(1, IF missed_start(start, MAX_PID, 1) THEN DefaultTime
                      ELSE U64Add(ArrayGet(start, 1), lat), 1)
    \/ handle_tcp_probe(U64(4096), TRUE, DefaultTime)
    \/ \E lat \in TcpLatencies :
          handle_tcp_rcv_space_adjust(
              U64(4096), IF U64(4096) \in DOMAIN start
                         THEN U64Add(start[U64(4096)], lat) ELSE DefaultTime)
    \/ \E size \in Following(ev, TrafficSizes) : tcp_sendmsg(AF_INET, 0, size)
    \/ \E family \in AddressFamilies : tcp_sendmsg(family, 0, U64(1))
    \/ \E size \in Following(ev, TrafficSizes) :
          tcp_cleanup_rbuf(AF_INET6, 0, Copied(size))
    \/ \E family \in AddressFamilies, copied \in {-1, 1} :
          tcp_cleanup_rbuf(family, 0, copied)

SpecHistogram == InitHistogram /\ [][NextHistogram]_vars

(***************************************************************************)
(* Capacity sessions: the packet-latency tracker when all but one of the   *)
(* MAX_ENTRIES entries of its table are taken: MAX_ENTRIES - 1 sockets     *)
(* have each had a packet arrive that the application has not read yet.    *)
(* Two further sockets then receive packets, are read and are closed.     *)
(***************************************************************************)
\* the sockets with a packet pending when the session starts
WaitingSocks == {U64(4096 * k) : k \in 3..(MAX_ENTRIES + 1)}

\* the sockets the events of the session are about
CapacitySocks == {U64(4096), U64(2 * 4096)}

InitCapacity ==
    /\ steps = 0
    /\ ev = NoEvent
    /\ prev = Brief(NoEvent)
    /\ start = [sk \in WaitingSocks |-> DefaultTime]
    /\ throttling_start = EmptyMap
    /\ counters = EmptyMap
    /\ events = EmptyMap
    /\ perf_counters = EmptyMap
    /\ numa_counters = [n \in NumaMaps |-> EmptyMap]
    /\ cgroup_serial_numbers = EmptyMap
    /\ cgroup_info = <<>>
    /\ cgroup_counters = [n \in CgroupMapNames |-> EmptyMap]
    /\ histograms = [n \in HistogramNames |-> EmptyMap]
    /\ cpus = [c \in 1..NumRunning |-> IdleCpu]
    /\ sampler = "packet_latency"
    /\ sched_task_group_exists = TRUE
    /\ syscall_lut = EmptyMap
    /\ irq_lut = EmptyMap
    /\ lut = EmptyMap

NextCapacity ==
    \/ \E sk \in CapacitySocks : handle_tcp_probe(sk, TRUE, U64(1500))
    \/ \E sk \in CapacitySocks : handle_tcp_rcv_space_adjust(sk, U64(2000))
    \/ \E sk \in CapacitySocks : handle_tcp_destroy_sock(sk)

SpecCapacity == InitCapacity /\ [][NextCapacity]_vars

(***************************************************************************)
(* Concurrent sessions: after a sequential prefix, one invocation of the   *)
(* same hook starts on every CPU and their steps interleave.  Each step is *)
(* one map helper call or one memory access of the hook.                   *)
(***************************************************************************)
AllIdle == \A c \in DOMAIN cpus : cpus[c].pc = "idle"
AllDone == \A c \in DOMAIN cpus : cpus[c].pc = "done"

Goto(cpu, label) == cpus' = [cpus EXCEPT ![cpu].pc = label]

SmpGroups == {TaskGroup(1, U64(3)), TaskGroup(1, U64(4))}

\* cpu_cfs_throttle_enter starts on every CPU for the same cgroup
cpu_cfs_throttle_enter_start(cgrp, ts) ==
    /\ sampler = "throttled"
    /\ AllIdle
    /\ throttled_resolved(cgrp)
    /\ cpus' = [c \in DOMAIN cpus |->
                  [IdleCpu EXCEPT
                     !.pc = "lookup_serial", !.cgrp = cgrp, !.now = ts,
                     !.base = ArrayGet(cgroup_counters["cgroup_throttled_count"],
                                       cgrp.id)]]
    /\ UNCHANGED <<sampler, steps, ev, prev, luts, perf_counters, numa_counters, start, throttling_start, counters,
                   events, attribution, histograms>>

\* update_cgroup_metadata: elem = lookup; if (!elem || *elem != serial_nr)
cpu_cfs_throttle_enter_lookup_serial(cpu) ==
    /\ cpus[cpu].pc = "lookup_serial"
    /\ LET is_new == throttled_is_new(cgroup_serial_numbers, cpus[cpu].cgrp.id,
                                      cpus[cpu].cgrp.serial_nr)
       IN  cpus' = [cpus EXCEPT
                      ![cpu].is_new = is_new,
                      ![cpu].pc = IF is_new THEN "zero_time" ELSE "write_start"]
    /\ UNCHANGED <<sampler, steps, ev, prev, luts, perf_counters, numa_counters, start, throttling_start, counters,
                   events, attribution, histograms>>

cpu_cfs_throttle_enter_zero_time(cpu) ==
    /\ cpus[cpu].pc = "zero_time"
    /\ cgroup_counters' =
           [cgroup_counters EXCEPT !["cgroup_throttled_time"] =
               zero_cgroup_counter(@, cpus[cpu].cgrp.id)]
    /\ Goto(cpu, "zero_count")
    /\ UNCHANGED <<sampler, steps, ev, prev, luts, perf_counters, numa_counters, start, throttling_start, counters,
                   events, cgroup_serial_numbers, cgroup_info, histograms>>

cpu_cfs_throttle_enter_zero_count(cpu) ==
    /\ cpus[cpu].pc = "zero_count"
    /\ cgroup_counters' =
           [cgroup_counters EXCEPT !["cgroup_throttled_count"] =
               zero_cgroup_counter(@, cpus[cpu].cgrp.id)]
    /\ Goto(cpu, "ringbuf_output")
    /\ UNCHANGED <<sampler, steps, ev, prev, luts, perf_counters, numa_counters, start, throttling_start, counters,
                   events, cgroup_serial_numbers, cgroup_info, histograms>>

cpu_cfs_throttle_enter_ringbuf_output(cpu) ==
    /\ cpus[cpu].pc = "ringbuf_output"
    /\ cgroup_info' = bpf_ringbuf_output(cgroup_info, CgInfo(cpus[cpu].cgrp))
    /\ Goto(cpu, "update_serial")
    /\ UNCHANGED <<sampler, steps, ev, prev, luts, perf_counters, numa_counters, start, throttling_start, counters,
                   events, cgroup_serial_numbers, cgroup_counters, histograms>>

cpu_cfs_throttle_enter_update_serial(cpu) ==
    /\ cpus[cpu].pc = "update_serial"
    /\ cgroup_serial_numbers' =
           array_update(cgroup_serial_numbers, MAX_CGROUPS, cpus[cpu].cgrp.id,
                        cpus[cpu].cgrp.serial_nr)
    /\ Goto(cpu, "write_start")
    /\ UNCHANGED <<sampler, steps, ev, prev, luts, perf_counters, numa_counters, start, throttling_start, counters,
                   events, cgroup_info, cgroup_counters, histograms>>

cpu_cfs_throttle_enter_write_start(cpu) ==
    /\ cpus[cpu].pc = "write_start"
    /\ throttling_start' = array_update(throttling_start, MAX_CGROUPS,
                                        cpus[cpu].cgrp.id, cpus[cpu].now)
    /\ Goto(cpu, "load_count")
    /\ UNCHANGED <<sampler, steps, ev, prev, luts, perf_counters, numa_counters, start, counters, events, attribution,
                   histograms>>

\* (*count)++ is a load, an add and a store
cpu_cfs_throttle_enter_load_count(cpu) ==
    /\ cpus[cpu].pc = "load_count"
    /\ cpus' = [cpus EXCEPT
                  ![cpu].pc = "store_count",
                  ![cpu].loaded = ArrayGet(cgroup_counters["cgroup_throttled_count"],
                                           cpus[cpu].cgrp.id)]
    /\ UNCHANGED <<sampler, steps, ev, prev, luts, perf_counters, numa_counters, start, throttling_start, counters,
                   events, attribution, histograms>>

cpu_cfs_throttle_enter_store_count(cpu) ==
    /\ cpus[cpu].pc = "store_count"
    /\ cgroup_counters' =
           [cgroup_counters EXCEPT !["cgroup_throttled_count"] =
               ArrayPut(@, cpus[cpu].cgrp.id, U64Add(cpus[cpu].loaded, U64(1)))]
    /\ Goto(cpu, "done")
    /\ UNCHANGED <<sampler, steps, ev, prev, luts, perf_counters, numa_counters, start, throttling_start, counters,
                   events, cgroup_serial_numbers, cgroup_info, histograms>>

\* sys_exit starts on every CPU, CPU c running thread c, for a syscall of the
\* same family
sys_exit_start(now, args_id) ==
    /\ sampler = "syscall"
    /\ AllIdle
    /\ args_id >= 0
    /\ LET group == classify(syscall_lut, MAX_SYSCALL_ID,
                             SYSCALL_COUNTER_GROUP_WIDTH, args_id)
           bucket == sys_exit_index(sys_exit_latency(DefaultTime, now))
       IN  cpus' = [c \in DOMAIN cpus |->
                      [IdleCpu EXCEPT
                         !.pc = "lookup_start", !.tid = c, !.now = now,
                         !.idx = group,
                         !.base = ArrayGet(histograms[SyscallLatencyMaps[group + 1]],
                                           bucket)]]
    /\ UNCHANGED <<sampler, steps, ev, prev, luts, perf_counters, numa_counters, start, throttling_start, counters,
                   events, attribution, histograms>>

\* start_ts = lookup; if (!start_ts || *start_ts == 0) return; lat = now - *start_ts
sys_exit_lookup_start(cpu) ==
    /\ cpus[cpu].pc = "lookup_start"
    /\ LET start_ts == ArrayGet(start, cpus[cpu].tid)
       IN  cpus' = IF missed_start(start, MAX_PID, cpus[cpu].tid)
                   THEN [cpus EXCEPT ![cpu].pc = "returned"]
                   ELSE [cpus EXCEPT
                           ![cpu].pc = "clear_start",
                           ![cpu].loaded = sys_exit_latency(start_ts, cpus[cpu].now)]
    /\ UNCHANGED <<sampler, steps, ev, prev, luts, perf_counters, numa_counters, start, throttling_start, counters,
                   events, attribution, histograms>>

\* *start_ts = 0
sys_exit_clear_start(cpu) ==
    /\ cpus[cpu].pc = "clear_start"
    /\ start' = ArrayPut(start, cpus[cpu].tid, Zero64)
    /\ Goto(cpu, "incr_latency")
    /\ UNCHANGED <<sampler, steps, ev, prev, luts, perf_counters, numa_counters, throttling_start, counters, events,
                   attribution, histograms>>

\* array_incr(&<family>_latency, idx): one atomic fetch-and-add
sys_exit_incr_latency(cpu) ==
    /\ cpus[cpu].pc = "incr_latency"
    /\ histograms' =
           [histograms EXCEPT ![SyscallLatencyMaps[cpus[cpu].idx + 1]] =
               array_incr(@, SYSCALL_HISTOGRAM_BUCKETS,
                          sys_exit_index(cpus[cpu].loaded))]
    /\ Goto(cpu, "done")
    /\ UNCHANGED <<sampler, steps, ev, prev, luts, perf_counters, numa_counters, start, throttling_start, counters,
                   events, attribution>>

InitSMP ==
    /\ InitMaps
    /\ sampler \in {"throttled", "syscall"}
    /\ sched_task_group_exists = TRUE
    /\ syscall_lut = IF sampler = "syscall" THEN Loaded(IdentityLut) ELSE EmptyMap
    /\ irq_lut = EmptyMap
    /\ lut = EmptyMap

NextSMP ==
    \/ AllIdle /\ \E tg \in SmpGroups : cpu_cfs_throttle_enter(tg, DefaultTime)
    \/ AllIdle /\ \E tid \in DOMAIN cpus :
                     sys_enter(tid, DefaultTime, 1, 0, DefaultGroup)
    \/ AllIdle /\ \E tid \in DOMAIN cpus : sys_exit(tid, U64(1500), 1)
    \/ \E tg \in SmpGroups : cpu_cfs_throttle_enter_start(tg, U64(1500))
    \/ \E cpu \in DOMAIN cpus : cpu_cfs_throttle_enter_lookup_serial(cpu)
    \/ \E cpu \in DOMAIN cpus : cpu_cfs_throttle_enter_zero_time(cpu)
    \/ \E cpu \in DOMAIN cpus : cpu_cfs_throttle_enter_zero_count(cpu)
    \/ \E cpu \in DOMAIN cpus : cpu_cfs_throttle_enter_ringbuf_output(cpu)
    \/ \E cpu \in DOMAIN cpus : cpu_cfs_throttle_enter_update_serial(cpu)
    \/ \E cpu \in DOMAIN cpus : cpu_cfs_throttle_enter_write_start(cpu)
    \/ \E cpu \in DOMAIN cpus : cpu_cfs_throttle_enter_load_count(cpu)
    \/ \E cpu \in DOMAIN cpus : cpu_cfs_throttle_enter_store_count(cpu)
    \/ sys_exit_start(U64(1500), 1)
    \/ \E cpu \in DOMAIN cpus : sys_exit_lookup_start(cpu)
    \/ \E cpu \in DOMAIN cpus : sys_exit_clear_start(cpu)
    \/ \E cpu \in DOMAIN cpus : sys_exit_incr_latency(cpu)

SpecSMP == InitSMP /\ [][NextSMP]_vars

(***************************************************************************)
(* Concurrent end hooks: after cpu_cfs_throttle_enter has run alone,       *)
(* cpu_cfs_unthrottle_enter starts on every CPU for tasks of the same      *)
(* cgroup and their steps interleave.  Each step is one map helper call or *)
(* one memory access of the hook.                                          *)
(***************************************************************************)
cpu_cfs_unthrottle_enter_start(cgrp, ts) ==
    /\ sampler = "throttled"
    /\ AllIdle
    /\ throttled_resolved(cgrp)
    /\ cpus' = [c \in DOMAIN cpus |->
                  [IdleCpu EXCEPT
                     !.pc = "lookup_start", !.cgrp = cgrp, !.now = ts,
                     !.calls = 1, !.at = steps,
                     !.base = ArrayGet(cgroup_counters["cgroup_throttled_time"],
                                       cgrp.id)]]
    /\ UNCHANGED <<sampler, steps, ev, prev, luts, perf_counters, numa_counters, start, throttling_start,
                   counters, events, attribution, histograms>>

\* start_ts = bpf_map_lookup_elem(&throttling_start, &cgroup_id);
\* if (!start_ts || *start_ts == 0) return 0; then the duration
cpu_cfs_unthrottle_enter_lookup_start(cpu) ==
    /\ sampler = "throttled"
    /\ cpus[cpu].pc = "lookup_start"
    /\ LET start_ts == ArrayGet(throttling_start, cpus[cpu].cgrp.id)
           duration == throttle_duration(start_ts, cpus[cpu].now)
       IN  cpus' = IF missed_start(throttling_start, MAX_CGROUPS, cpus[cpu].cgrp.id)
                   THEN [cpus EXCEPT ![cpu].pc = "done"]
                   ELSE [cpus EXCEPT
                           ![cpu].duration = <<duration>>,
                           ![cpu].pc = IF duration # Zero64 THEN "load_time"
                                       ELSE "reset_start"]
    /\ UNCHANGED <<sampler, steps, ev, prev, luts, perf_counters, numa_counters, start, throttling_start,
                   counters, events, attribution, histograms>>

\* *throttled_time += duration is a load, an add and a store
cpu_cfs_unthrottle_enter_load_time(cpu) ==
    /\ sampler = "throttled"
    /\ cpus[cpu].pc = "load_time"
    /\ cpus' = [cpus EXCEPT
                  ![cpu].pc = "store_time",
                  ![cpu].loaded = ArrayGet(cgroup_counters["cgroup_throttled_time"],
                                           cpus[cpu].cgrp.id)]
    /\ UNCHANGED <<sampler, steps, ev, prev, luts, perf_counters, numa_counters, start, throttling_start,
                   counters, events, attribution, histograms>>

cpu_cfs_unthrottle_enter_store_time(cpu) ==
    /\ sampler = "throttled"
    /\ cpus[cpu].pc = "store_time"
    /\ cgroup_counters' =
           [cgroup_counters EXCEPT !["cgroup_throttled_time"] =
               ArrayPut(@, cpus[cpu].cgrp.id,
                        U64Add(cpus[cpu].loaded, cpus[cpu].duration[1]))]
    /\ Goto(cpu, "reset_start")
    /\ UNCHANGED <<sampler, steps, ev, prev, luts, perf_counters, numa_counters, start, throttling_start,
                   counters, events, cgroup_serial_numbers, cgroup_info, histograms>>

\* bpf_map_update_elem(&throttling_start, &cgroup_id, &zero, BPF_ANY)
cpu_cfs_unthrottle_enter_reset_start(cpu) ==
    /\ sampler = "throttled"
    /\ cpus[cpu].pc = "reset_start"
    /\ throttling_start' = array_update(throttling_start, MAX_CGROUPS,
                                        cpus[cpu].cgrp.id, Zero64)
    /\ Goto(cpu, "done")
    /\ UNCHANGED <<sampler, steps, ev, prev, luts, perf_counters, numa_counters, start, counters, events,
                   attribution, histograms>>

InitUnthrottle ==
    /\ InitMaps
    /\ sampler = "throttled"
    /\ sched_task_group_exists = TRUE
    /\ syscall_lut = EmptyMap
    /\ irq_lut = EmptyMap
    /\ lut = EmptyMap

NextUnthrottle ==
    \/ AllIdle /\ \E tg \in SmpGroups, ts \in {Zero64, DefaultTime} :
                     cpu_cfs_throttle_enter(tg, ts)
    \/ \E tg \in SmpGroups, ts \in {DefaultTime, U64(1500)} :
          cpu_cfs_unthrottle_enter_start(tg, ts)
    \/ \E cpu \in DOMAIN cpus : cpu_cfs_unthrottle_enter_lookup_start(cpu)
    \/ \E cpu \in DOMAIN cpus : cpu_cfs_unthrottle_enter_load_time(cpu)
    \/ \E cpu \in DOMAIN cpus : cpu_cfs_unthrottle_enter_store_time(cpu)
    \/ \E cpu \in DOMAIN cpus : cpu_cfs_unthrottle_enter_reset_start(cpu)

SpecUnthrottle == InitUnthrottle /\ [][NextUnthrottle]_vars

(***************************************************************************)
(* Parallel sessions.  CPU c is processor c - 1 and runs thread c.  In a   *)
(* syscall or tlb_flush session one invocation of the hook starts on every *)
(* CPU for the same task group, and their steps interleave; before and     *)
(* after it the hook runs alone on processor 0, as cpu_cfs_throttle_enter  *)
(* does in a throttled session.  In a traffic session each                 *)
(* CPU sends NumRounds messages and the steps of tcp_sendmsg interleave    *)
(* freely.  Each step is one map helper call.  The sixteen (five) zeroing  *)
(* updates of an invocation are one step: only the map of the family       *)
(* (reason) of the session is written by any other step.                   *)
(***************************************************************************)
Quiet == AllIdle \/ AllDone

\* an offset that ignores the processor
counter_offset_shared(width, processor_id) == 0

\* offset = COUNTER_GROUP_WIDTH * bpf_get_smp_processor_id()
counter_offset(width, processor_id) == width * processor_id

\* the steps the attribution blocks of sys_enter and tlb_flush share
AttributionEnter(tg) ==
    [IdleCpu EXCEPT
       !.cgrp = tg, !.calls = 1, !.at = steps,
       !.stale = ArrayGet(cgroup_serial_numbers, tg.id) # tg.serial_nr,
       !.room = Len(cgroup_info) < RingbufRecords]

\* elem = bpf_map_lookup_elem(&cgroup_serial_numbers, &cgroup_id);
\* if (elem && *elem != serial_nr)
LookupSerial(cpu, at, new, old) ==
    /\ cpus[cpu].pc = at
    /\ LET is_new == is_new_cgroup(cgroup_serial_numbers, cpus[cpu].cgrp.id,
                                   cpus[cpu].cgrp.serial_nr)
       IN  cpus' = [cpus EXCEPT ![cpu].is_new = is_new,
                                ![cpu].pc = IF is_new THEN new ELSE old]
    /\ UNCHANGED <<sampler, steps, ev, prev, luts, perf_counters, numa_counters, start, throttling_start, counters,
                   events, attribution, histograms>>

ZeroCounters(cpu, at, names, next) ==
    /\ cpus[cpu].pc = at
    /\ cgroup_counters' = zero_cgroup_counters(cgroup_counters, names,
                                               cpus[cpu].cgrp.id)
    /\ Goto(cpu, next)
    /\ UNCHANGED <<sampler, steps, ev, prev, luts, perf_counters, numa_counters, start, throttling_start, counters,
                   events, cgroup_serial_numbers, cgroup_info, histograms>>

\* bpf_ringbuf_output(&cgroup_info, &cginfo, sizeof(cginfo), 0), result unused
RingbufOutput(cpu, at, next) ==
    /\ cpus[cpu].pc = at
    /\ cgroup_info' = bpf_ringbuf_output(cgroup_info, CgInfo(cpus[cpu].cgrp))
    /\ cpus' = [cpus EXCEPT
                  ![cpu].pc = next,
                  ![cpu].offered = @ + 1,
                  ![cpu].dropped = Len(cgroup_info) >= RingbufRecords]
    /\ UNCHANGED <<sampler, steps, ev, prev, luts, perf_counters, numa_counters, start, throttling_start, counters,
                   events, cgroup_serial_numbers, cgroup_counters, histograms>>

UpdateSerial(cpu, at, next) ==
    /\ cpus[cpu].pc = at
    /\ cgroup_serial_numbers' =
           update_cgroup_serial(cgroup_serial_numbers, cpus[cpu].cgrp.id,
                                cpus[cpu].cgrp.serial_nr)
    /\ Goto(cpu, next)
    /\ UNCHANGED <<sampler, steps, ev, prev, luts, perf_counters, numa_counters, start, throttling_start, counters,
                   events, cgroup_info, cgroup_counters, histograms>>

\* array_incr(&cgroup_<family>, cgroup_id)
IncrCgroup(cpu, at, name) ==
    /\ cpus[cpu].pc = at
    /\ cgroup_counters' = [cgroup_counters EXCEPT ![name] =
                              array_incr(@, MAX_CGROUPS, cpus[cpu].cgrp.id)]
    /\ Goto(cpu, "done")
    /\ UNCHANGED <<sampler, steps, ev, prev, luts, perf_counters, numa_counters, start, throttling_start, counters,
                   events, cgroup_serial_numbers, cgroup_info, histograms>>

\* sys_enter starts on every CPU for a task of the same cgroup
sys_enter_start(ts, args_id, tg) ==
    /\ sampler = "syscall"
    /\ AllIdle
    /\ cpus' = [c \in DOMAIN cpus |->
                  [AttributionEnter(tg) EXCEPT
                     !.pc = "write_start", !.tid = c, !.now = ts, !.id = args_id]]
    /\ UNCHANGED <<sampler, steps, ev, prev, luts, perf_counters, numa_counters, start, throttling_start, counters,
                   events, attribution, histograms>>

\* bpf_map_update_elem(&start, &tid, &ts, 0); if (args->id < 0) return 0
sys_enter_write_start(cpu) ==
    /\ sampler = "syscall"
    /\ cpus[cpu].pc = "write_start"
    /\ start' = array_update(start, MAX_PID, cpus[cpu].tid, cpus[cpu].now)
    /\ LET group == classify(syscall_lut, MAX_SYSCALL_ID,
                             SYSCALL_COUNTER_GROUP_WIDTH, cpus[cpu].id)
           offset == counter_offset(SYSCALL_COUNTER_GROUP_WIDTH, cpu - 1)
       IN  cpus' = [cpus EXCEPT
                      ![cpu].pc = IF cpus[cpu].id < 0 THEN "done" ELSE "incr_counter",
                      ![cpu].group = IF cpus[cpu].id < 0 THEN 0 ELSE group,
                      ![cpu].idx = IF cpus[cpu].id < 0 THEN 0 ELSE offset + group]
    /\ UNCHANGED <<sampler, steps, ev, prev, luts, perf_counters, numa_counters, throttling_start, counters, events,
                   attribution, histograms>>

\* array_incr(&counters, idx); if (cgroup_id && cgroup_id < MAX_CGROUPS)
sys_enter_incr_counter(cpu) ==
    /\ sampler = "syscall"
    /\ cpus[cpu].pc = "incr_counter"
    /\ counters' = array_incr(counters, MAX_CPUS * SYSCALL_COUNTER_GROUP_WIDTH,
                              cpus[cpu].idx)
    /\ Goto(cpu, IF /\ sched_task_group_exists
                    /\ cpus[cpu].cgrp.id # 0
                    /\ cpus[cpu].cgrp.id < MAX_CGROUPS
                 THEN "lookup_serial" ELSE "done")
    /\ UNCHANGED <<sampler, steps, ev, prev, luts, perf_counters, numa_counters, start, throttling_start, events,
                   attribution, histograms>>

sys_enter_lookup_serial(cpu) ==
    sampler = "syscall" /\ LookupSerial(cpu, "lookup_serial", "zero_counters",
                                        "incr_cgroup")

sys_enter_zero_counters(cpu) ==
    sampler = "syscall" /\ ZeroCounters(cpu, "zero_counters", Range(SyscallCgroupMaps),
                                        "ringbuf_output")

sys_enter_ringbuf_output(cpu) ==
    sampler = "syscall" /\ RingbufOutput(cpu, "ringbuf_output", "update_serial")

sys_enter_update_serial(cpu) ==
    sampler = "syscall" /\ UpdateSerial(cpu, "update_serial", "incr_cgroup")

\* switch (group) ... array_incr(&cgroup_syscall_<family>, cgroup_id)
sys_enter_incr_cgroup(cpu) ==
    sampler = "syscall" /\ IncrCgroup(cpu, "incr_cgroup",
                                      SyscallCgroupMaps[cpus[cpu].group + 1])

\* tlb_flush starts on every CPU for a task of the same cgroup
tlb_flush_start(reason, tg) ==
    /\ sampler = "tlb_flush"
    /\ AllIdle
    /\ cpus' = [c \in DOMAIN cpus |->
                  [AttributionEnter(tg) EXCEPT
                     !.pc = "incr_events", !.id = reason, !.group = reason,
                     !.idx = reason + counter_offset(TLB_COUNTER_GROUP_WIDTH, c - 1)]]
    /\ UNCHANGED <<sampler, steps, ev, prev, luts, perf_counters, numa_counters, start, throttling_start, counters,
                   events, attribution, histograms>>

\* array_incr(&events, idx); if (read_cgroup_info(current, &cginfo) == 0)
tlb_flush_incr_events(cpu) ==
    /\ sampler = "tlb_flush"
    /\ cpus[cpu].pc = "incr_events"
    /\ events' = array_incr(events, MAX_CPUS * TLB_COUNTER_GROUP_WIDTH, cpus[cpu].idx)
    /\ Goto(cpu, IF sched_task_group_exists /\ read_cgroup_info(cpus[cpu].cgrp)
                 THEN "lookup_serial" ELSE "done")
    /\ UNCHANGED <<sampler, steps, ev, prev, luts, perf_counters, numa_counters, start, throttling_start, counters,
                   attribution, histograms>>

tlb_flush_lookup_serial(cpu) ==
    sampler = "tlb_flush" /\ LookupSerial(cpu, "lookup_serial", "zero_counters",
                                          "incr_cgroup")

tlb_flush_zero_counters(cpu) ==
    sampler = "tlb_flush" /\ ZeroCounters(cpu, "zero_counters", Range(TlbCgroupMaps),
                                          "ringbuf_output")

tlb_flush_ringbuf_output(cpu) ==
    sampler = "tlb_flush" /\ RingbufOutput(cpu, "ringbuf_output", "update_serial")

tlb_flush_update_serial(cpu) ==
    sampler = "tlb_flush" /\ UpdateSerial(cpu, "update_serial", "incr_cgroup")

\* switch (reason) ... array_incr(&cgroup_<reason>, cgroup_id)
tlb_flush_incr_cgroup(cpu) ==
    /\ sampler = "tlb_flush"
    /\ IF cpus[cpu].id \in 0..(Len(TlbCgroupMaps) - 1)
       THEN IncrCgroup(cpu, "incr_cgroup", TlbCgroupMaps[cpus[cpu].id + 1])
       ELSE /\ cpus[cpu].pc = "incr_cgroup"
            /\ Goto(cpu, "done")
            /\ UNCHANGED <<sampler, steps, ev, prev, luts, perf_counters, numa_counters, start, throttling_start,
                           counters, events, attribution, histograms>>

\* tcp_sendmsg is entered on a CPU that is not inside the hook
tcp_sendmsg_start(cpu, family, size) ==
    /\ sampler = "traffic"
    /\ cpus[cpu].pc \in {"idle", "done"}
    /\ cpus[cpu].calls < NumRounds
    /\ cpus' = [cpus EXCEPT
                  ![cpu] = [IdleCpu EXCEPT
                              !.pc = IF family # AF_INET /\ family # AF_INET6
                                     THEN "done" ELSE "add_bytes",
                              !.id = family, !.size = size,
                              !.calls = cpus[cpu].calls + 1]]
    /\ UNCHANGED <<sampler, steps, ev, prev, luts, perf_counters, numa_counters, start, throttling_start, counters,
                   events, attribution, histograms>>

\* idx = cpu_idx + TCP_TX_BYTES; __atomic_fetch_add(cnt, (u64) size, ...)
tcp_sendmsg_add_bytes(cpu) ==
    /\ sampler = "traffic"
    /\ cpus[cpu].pc = "add_bytes"
    /\ counters' = array_add(counters, TRAFFIC_COUNTERS,
                             counter_offset(TRAFFIC_COUNTER_GROUP_WIDTH, cpu - 1)
                                 + TCP_TX_BYTES,
                             cpus[cpu].size)
    /\ Goto(cpu, "incr_packets")
    /\ UNCHANGED <<sampler, steps, ev, prev, luts, perf_counters, numa_counters, start, throttling_start, events,
                   attribution, histograms>>

\* idx = cpu_idx + TCP_TX_PACKETS; __atomic_fetch_add(cnt, 1, ...)
tcp_sendmsg_incr_packets(cpu) ==
    /\ sampler = "traffic"
    /\ cpus[cpu].pc = "incr_packets"
    /\ counters' = array_incr(counters, TRAFFIC_COUNTERS,
                              counter_offset(TRAFFIC_COUNTER_GROUP_WIDTH, cpu - 1)
                                  + TCP_TX_PACKETS)
    /\ Goto(cpu, "incr_size")
    /\ UNCHANGED <<sampler, steps, ev, prev, luts, perf_counters, numa_counters, start, throttling_start, events,
                   attribution, histograms>>

\* idx = value_to_index((u64) size, HISTOGRAM_POWER); __atomic_fetch_add(cnt, 1, ...)
tcp_sendmsg_incr_size(cpu) ==
    /\ sampler = "traffic"
    /\ cpus[cpu].pc = "incr_size"
    /\ histograms' = [histograms EXCEPT !["tx_size"] =
                         array_incr(@, TRAFFIC_HISTOGRAM_BUCKETS,
                                    tcp_size_index(cpus[cpu].size))]
    /\ Goto(cpu, "done")
    /\ UNCHANGED <<sampler, steps, ev, prev, luts, perf_counters, numa_counters, start, throttling_start, counters,
                   events, attribution>>

InitParallel ==
    /\ InitMaps
    /\ sampler \in {"syscall", "tlb_flush", "throttled", "traffic"}
    /\ sched_task_group_exists = TRUE
    /\ syscall_lut = IF sampler = "syscall" THEN Loaded(IdentityLut) ELSE EmptyMap
    /\ irq_lut = EmptyMap
    /\ lut = EmptyMap

NextParallel ==
    \/ Quiet /\ \E tg \in SmpGroups : sys_enter(1, DefaultTime, 1, 0, tg)
    \/ Quiet /\ \E tg \in SmpGroups : tlb_flush(1, 0, tg)
    \/ Quiet /\ \E tg \in SmpGroups : cpu_cfs_throttle_enter(tg, DefaultTime)
    \/ \E tg \in SmpGroups : sys_enter_start(U64(1500), 1, tg)
    \/ \E cpu \in DOMAIN cpus : sys_enter_write_start(cpu)
    \/ \E cpu \in DOMAIN cpus : sys_enter_incr_counter(cpu)
    \/ \E cpu \in DOMAIN cpus : sys_enter_lookup_serial(cpu)
    \/ \E cpu \in DOMAIN cpus : sys_enter_zero_counters(cpu)
    \/ \E cpu \in DOMAIN cpus : sys_enter_ringbuf_output(cpu)
    \/ \E cpu \in DOMAIN cpus : sys_enter_update_serial(cpu)
    \/ \E cpu \in DOMAIN cpus : sys_enter_incr_cgroup(cpu)
    \/ \E tg \in SmpGroups : tlb_flush_start(1, tg)
    \/ \E cpu \in DOMAIN cpus : tlb_flush_incr_events(cpu)
    \/ \E cpu \in DOMAIN cpus : tlb_flush_lookup_serial(cpu)
    \/ \E cpu \in DOMAIN cpus : tlb_flush_zero_counters(cpu)
    \/ \E cpu \in DOMAIN cpus : tlb_flush_ringbuf_output(cpu)
    \/ \E cpu \in DOMAIN cpus : tlb_flush_update_serial(cpu)
    \/ \E cpu \in DOMAIN cpus : tlb_flush_incr_cgroup(cpu)
    \/ \E cpu \in DOMAIN cpus : tcp_sendmsg_start(cpu, AF_INET, U64(1500))
    \/ \E cpu \in DOMAIN cpus : tcp_sendmsg_add_bytes(cpu)
    \/ \E cpu \in DOMAIN cpus : tcp_sendmsg_incr_packets(cpu)
    \/ \E cpu \in DOMAIN cpus : tcp_sendmsg_incr_size(cpu)
    \/ reader_drain

SpecParallel == InitParallel /\ [][NextParallel]_vars

(***************************************************************************)
(* Perf sessions: tasks of several thread groups are switched out, running *)
(* or not, with every pair of hardware counter readings.                   *)
(***************************************************************************)
Tgids == 1..NumTasks
TaskStates == {TASK_RUNNING, 1}
PerfReadings == {U64(1000 * k) : k \in 1..NumRunning}

InitPerf ==
    /\ InitMaps
    /\ sampler = "perf"
    /\ sched_task_group_exists = TRUE
    /\ syscall_lut = EmptyMap
    /\ irq_lut = EmptyMap
    /\ lut = EmptyMap

NextPerf ==
    \E processor_id \in Cpus, state \in TaskStates, tgid \in Tgids,
       c \in PerfReadings, i \in PerfReadings, found_c \in BOOLEAN,
       found_i \in BOOLEAN :
        handle__sched_switch(processor_id, state, tgid, c, i, found_c, found_i)

SpecPerf == InitPerf /\ [][NextPerf]_vars

(***************************************************************************)
(* NUMA sessions.  __zone_statistics runs on any CPU that is not inside   *)
(* it, MaxEvents times in all, and the invocations interleave: each step   *)
(* is one bpf_map_lookup_elem with the __sync_fetch_and_add that follows.  *)
(***************************************************************************)
\* counter = bpf_map_lookup_elem(&map, &key);
\* if (counter) __sync_fetch_and_add(counter, nr_account);
\* nr_account is an int: the u64 added is its sign extension
numa_add(maps, name, key, nr_account) ==
    LET delta == IF nr_account >= 0 THEN U64(nr_account)
                 ELSE U64Sub(Zero64, U64(0 - nr_account))
    IN  IF InRange(key, MAX_NUMA_NODES)
        THEN [maps EXCEPT ![name] = ArrayPut(@, key, U64Add(ArrayGet(@, key), delta))]
        ELSE maps

\* an allocation off the preferred node that is not counted as foreign
numa_node_maps_miss_only(z_nid, preferred_nid) ==
    IF z_nid = preferred_nid THEN <<"numa_hit">> ELSE <<"numa_miss">>

\* if (z_nid == preferred_nid) numa_hit, else numa_miss and then numa_foreign
numa_node_maps(z_nid, preferred_nid) ==
    IF z_nid = preferred_nid THEN <<"numa_hit">> ELSE <<"numa_miss", "numa_foreign">>

\* entry: if (!preferred_zone || !z) return 0; the node ids are read, and
\* local_nid is 0 whatever the CPU is
zone_statistics_start(cpu, zones, preferred_nid, z_nid, nr_account) ==
    /\ sampler = "numa"
    /\ cpus[cpu].pc \in {"idle", "done"}
    /\ steps < MaxEvents
    /\ steps' = steps + 1
    /\ cpus' = [cpus EXCEPT
                  ![cpu] = IF zones
                           THEN [IdleCpu EXCEPT
                                   !.pc = "node",
                                   !.preferred_nid = preferred_nid,
                                   !.z_nid = z_nid, !.local_nid = 0,
                                   !.nr_account = nr_account]
                           ELSE [IdleCpu EXCEPT !.pc = "done"]]
    /\ UNCHANGED <<sampler, ev, prev, luts, perf_counters, numa_counters, start,
                   throttling_start, counters, events, attribution, histograms>>

\* the add to numa_hit, or to numa_miss
zone_statistics_node(cpu) ==
    /\ sampler = "numa"
    /\ cpus[cpu].pc = "node"
    /\ LET names == numa_node_maps(cpus[cpu].z_nid, cpus[cpu].preferred_nid)
       IN  /\ numa_counters' = numa_add(numa_counters, names[1], 0,
                                        cpus[cpu].nr_account)
           /\ Goto(cpu, IF Len(names) > 1 THEN "foreign" ELSE "locality")
    /\ UNCHANGED <<sampler, steps, ev, prev, luts, perf_counters, start,
                   throttling_start, counters, events, attribution, histograms>>

\* the add to numa_foreign that follows the add to numa_miss
zone_statistics_foreign(cpu) ==
    /\ sampler = "numa"
    /\ cpus[cpu].pc = "foreign"
    /\ LET names == numa_node_maps(cpus[cpu].z_nid, cpus[cpu].preferred_nid)
       IN  numa_counters' = numa_add(numa_counters, names[Len(names)], 0,
                                     cpus[cpu].nr_account)
    /\ Goto(cpu, "locality")
    /\ UNCHANGED <<sampler, steps, ev, prev, luts, perf_counters, start,
                   throttling_start, counters, events, attribution, histograms>>

\* if (z_nid == local_nid) the add to numa_local, else to numa_other; return 0
zone_statistics_locality(cpu) ==
    /\ sampler = "numa"
    /\ cpus[cpu].pc = "locality"
    /\ numa_counters' = numa_add(numa_counters,
                                 IF cpus[cpu].z_nid = cpus[cpu].local_nid
                                 THEN "numa_local" ELSE "numa_other",
                                 0, cpus[cpu].nr_account)
    /\ cpus' = [cpus EXCEPT ![cpu] = [IdleCpu EXCEPT !.pc = "done"]]
    /\ UNCHANGED <<sampler, steps, ev, prev, luts, perf_counters, start,
                   throttling_start, counters, events, attribution, histograms>>

InitNuma ==
    /\ InitMaps
    /\ sampler = "numa"
    /\ sched_task_group_exists = TRUE
    /\ syscall_lut = EmptyMap
    /\ irq_lut = EmptyMap
    /\ lut = EmptyMap

NextNuma ==
    \/ \E cpu \in DOMAIN cpus, zones \in BOOLEAN, preferred_nid \in {0, 1},
          z_nid \in {0, 1}, nr_account \in {1, -1} :
          zone_statistics_start(cpu, zones, preferred_nid, z_nid, nr_account)
    \/ \E cpu \in DOMAIN cpus : zone_statistics_node(cpu)
    \/ \E cpu \in DOMAIN cpus : zone_statistics_foreign(cpu)
    \/ \E cpu \in DOMAIN cpus : zone_statistics_locality(cpu)

SpecNuma == InitNuma /\ [][NextNuma]_vars

(***************************************************************************)
(* Properties.                                                             *)
(***************************************************************************)
BeginHooks == {"sys_enter", "softirq_enter", "cpu_cfs_throttle_enter",
               "tg_throttle_down_enter", "handle_tcp_probe"}
ArrayBeginHooks == BeginHooks \ {"handle_tcp_probe"}
EndHooks == {"sys_exit", "softirq_exit", "cpu_cfs_unthrottle_enter",
             "tg_throttle_up_enter", "handle_tcp_rcv_space_adjust"}
ThrottledHooks == {"cpu_cfs_throttle_enter", "tg_throttle_down_enter",
                   "cpu_cfs_unthrottle_enter", "tg_throttle_up_enter"}
TcpHooks == {"handle_tcp_probe", "handle_tcp_rcv_space_adjust",
             "handle_tcp_destroy_sock"}
AttributionHooks == {"sys_enter", "tlb_flush", "cpu_cfs_throttle_enter",
                     "tg_throttle_down_enter", "tg_throttle_up_enter"}

\* the pending start of the key of event e in the interval maps st (start) and
\* tst (throttling_start): <<s>> when PENDING, <<>> when IDLE
PendingIn(st, tst, e) ==
    IF e.hook \in TcpHooks
    THEN IF e.sk \in DOMAIN st THEN <<st[e.sk]>> ELSE <<>>
    ELSE LET m == IF e.hook \in ThrottledHooks THEN tst ELSE st
         IN  IF ArrayGet(m, e.key) # Zero64 THEN <<ArrayGet(m, e.key)>> ELSE <<>>

SameKey(a, b) == a.key = b.key /\ a.sk = b.sk

\* the invocation resolved an in-range cgroup id and ran the version check
Attributes(e) == e.hook \in AttributionHooks /\ e.resolved

\* what event e itself adds to the slot of its cgroup in per-cgroup map n
OwnContribution(e, n) ==
    IF e.hook = "sys_enter" /\ n = SyscallCgroupMaps[e.group + 1] THEN U64(1)
    ELSE IF e.hook = "tlb_flush" /\ e.id \in 0..(Len(TlbCgroupMaps) - 1)
            /\ n = TlbCgroupMaps[e.id + 1] THEN U64(1)
    ELSE IF e.hook \in {"cpu_cfs_throttle_enter", "tg_throttle_down_enter"}
            /\ n = "cgroup_throttled_count" THEN U64(1)
    ELSE IF e.hook = "tg_throttle_up_enter" /\ n = "cgroup_throttled_time"
            /\ e.dur # <<>> THEN e.dur[1]
    ELSE Zero64

\* the system-wide counter bank of the sampler, and its capacity
Bank == IF sampler = "tlb_flush" THEN events ELSE counters
BankWidth ==
    IF sampler = "tlb_flush" THEN TLB_COUNTER_GROUP_WIDTH
    ELSE IF sampler = "softirq" THEN SOFTIRQ_COUNTER_GROUP_WIDTH
    ELSE SYSCALL_COUNTER_GROUP_WIDTH
BankCapacity == MAX_CPUS * BankWidth

\* the slot the concurrent invocations all add to
ConcurrentSlot ==
    IF sampler = "throttled"
    THEN ArrayGet(cgroup_counters["cgroup_throttled_count"], cpus[1].cgrp.id)
    ELSE ArrayGet(histograms[SyscallLatencyMaps[cpus[1].idx + 1]],
                  sys_exit_index(cpus[1].loaded))

NoRebase == \A c \in DOMAIN cpus : ~cpus[c].is_new

\* C1 (as stated): once the concurrent invocations, none of which re-based
\* the cgroup, have all finished, the slot each of them incremented once
\* equals its value when they began plus their number.
C1_Conservation ==
    AllDone /\ NoRebase => ConcurrentSlot = U64Add(cpus[1].base, U64(NumRunning))

\* C1, the part that holds: the slots updated through array_add/array_incr
\* (here the latency bucket of sys_exit) lose no concurrent increment.
C1_ArrayAddConservation ==
    sampler = "syscall" /\ AllDone
        => ConcurrentSlot = U64Add(cpus[1].base, U64(NumRunning))

C1_Witness ==
    /\ sampler = "throttled" /\ AllDone /\ NoRebase
    /\ ConcurrentSlot = U64Add(cpus[1].base, U64(1))

\* C2: a hook that increments the system-wide counter bank adds its delta to
\* the slot at cpu * width + group when that index is below the capacity of
\* the bank and changes no slot of the bank otherwise; it returns 0 either way.
C2_Increment ==
    [][HookStep /\ ev'.counted =>
         /\ ev'.idx = ev'.cpu * BankWidth + ev'.group
         /\ \A k \in DOMAIN Bank \cup DOMAIN Bank' \cup {ev'.idx} :
               ArrayGet(Bank', k) =
                   IF k = ev'.idx /\ 0 <= k /\ k < BankCapacity
                   THEN U64Add(ArrayGet(Bank, k), ev'.delta)
                   ELSE ArrayGet(Bank, k)
         /\ ev'.ret = 0]_vars

C2_Witness ==
    /\ ev.hook = "sys_enter" /\ ev.counted
    /\ ev.idx >= BankCapacity
    /\ counters # EmptyMap
    /\ \A k \in DOMAIN counters : k < BankCapacity

\* the group the 64-bit entry of raw_id stands for: 0 when raw_id is out of
\* bound, when the entry is 0 or when it is not below width
StatedGroup(table, bound, width, raw_id) ==
    IF ~InRange(raw_id, bound) THEN 0
    ELSE LET v == ArrayGet(table, raw_id)
         IN  IF v = Zero64 \/ ~U64Lt(v, U64(width)) THEN 0 ELSE v[1]

\* C3 (as stated): the group a hook classifies a raw id into is 0 when the id
\* is out of bound, when its 64-bit entry is 0 or when the entry is not below
\* the group count, and is the stored entry otherwise.
C3_Classify ==
    /\ ev.hook = "sys_enter" /\ ev.counted
          => ev.group = StatedGroup(syscall_lut, MAX_SYSCALL_ID,
                                    SYSCALL_COUNTER_GROUP_WIDTH, ev.id)
    /\ ev.hook = "sys_exit" /\ ev.dur # <<>>
          => ev.group = StatedGroup(syscall_lut, MAX_SYSCALL_ID,
                                    SYSCALL_COUNTER_GROUP_WIDTH, ev.id)
    /\ ev.hook = "softirq_exit" /\ ev.counted
          => ev.group = StatedGroup(irq_lut, MAX_IRQS,
                                    SOFTIRQ_COUNTER_GROUP_WIDTH, 0)

C5_NoWrap ==
    [][HookStep /\ ev'.hook \in EndHooks /\ ev'.dur # <<>>
          /\ PendingIn(start, throttling_start, ev') # <<>>
          /\ U64Lt(ev'.now, PendingIn(start, throttling_start, ev')[1])
          => ev'.dur = <<Zero64>>]_vars

\* C6 (as stated): an end hook invoked for a key with a pending start leaves
\* the key IDLE, whatever its other arguments are.
C6_EndClears ==
    [][HookStep /\ ev'.hook \in EndHooks
          /\ PendingIn(start, throttling_start, ev') # <<>>
          => PendingIn(start', throttling_start', ev') = <<>>]_vars

\* C7 (as stated): an end hook invoked for a key with no pending start changes
\* no histogram bucket, no counter slot and no interval entry, and returns 0.
C7_EndWithoutStart ==
    [][HookStep /\ ev'.hook \in EndHooks
          /\ PendingIn(start, throttling_start, ev') = <<>>
          => /\ UNCHANGED <<start, throttling_start, counters, events,
                            cgroup_counters, histograms>>
             /\ ev'.ret = 0]_vars

\* C7 (amended): an end hook invoked for a key with no pending start changes
\* no histogram bucket, no system-wide counter slot and no interval entry and
\* returns 0; the only per-cgroup slots it can change are those of its own
\* cgroup that tg_throttle_up_enter zeroes when the version tag it reads
\* differs from the cached one.
C7_EndWithoutStartButRebase ==
    [][HookStep /\ ev'.hook \in EndHooks
          /\ PendingIn(start, throttling_start, ev') = <<>>
          => /\ UNCHANGED <<start, throttling_start, counters, events, histograms>>
             /\ ev'.ret = 0
             /\ ev'.dur = <<>>
             /\ \A n \in CgroupMapNames :
                  \A k \in DOMAIN cgroup_counters[n] \cup DOMAIN cgroup_counters'[n] :
                     \/ ArrayGet(cgroup_counters'[n], k) = ArrayGet(cgroup_counters[n], k)
                     \/ /\ ev'.hook = "tg_throttle_up_enter"
                        /\ k = ev'.cg
                        /\ ArrayGet(cgroup_serial_numbers, k) # ev'.serial
                        /\ ArrayGet(cgroup_counters'[n], k) = Zero64]_vars

C7_Witness ==
    /\ ev.hook = "tg_throttle_up_enter" /\ ~ev.pending
    /\ ev.changed /\ ev.had_counts
    /\ ArrayGet(cgroup_counters["cgroup_throttled_count"], ev.cg) = Zero64

\* C8: a teardown leaves its socket IDLE, whatever the sampling mask is,
\* without touching a latency bucket or another socket's entry, and changes
\* nothing when the socket was IDLE; an end of the same socket that follows
\* the teardown changes no latency bucket and no interval entry.
C8_Teardown ==
    [][HookStep =>
         /\ ev'.hook = "handle_tcp_destroy_sock"
               => /\ ev'.sk \notin DOMAIN start'
                  /\ \A k \in (DOMAIN start \cup DOMAIN start') \ {ev'.sk} :
                        k \in DOMAIN start /\ k \in DOMAIN start'
                        /\ start'[k] = start[k]
                  /\ UNCHANGED <<histograms, counters, cgroup_counters>>
                  /\ ev'.sk \notin DOMAIN start => start' = start
         /\ ev.hook = "handle_tcp_destroy_sock"
               /\ ev'.hook = "handle_tcp_rcv_space_adjust" /\ SameKey(ev, ev')
               => /\ UNCHANGED <<histograms, start>>
                  /\ ev'.dur = <<>>]_vars

\* a socket with a pending start is torn down, and then its end hook runs
C8_Witness ==
    /\ prev.hook = "handle_tcp_destroy_sock" /\ prev.pending
    /\ ev.hook = "handle_tcp_rcv_space_adjust" /\ SameKey(prev, ev)
    /\ histograms["latency"] = EmptyMap

\* C9: when a hook attributes an event to an in-range cgroup id whose version
\* tag differs from the cached one, then on return (a) every per-cgroup slot
\* of that id holds only what this event itself adds after the zeroing, (b)
\* exactly one metadata record, carrying that id, was offered to the ring,
\* and (c) the cached tag is the tag the hook read.
C9_Rebase ==
    [][HookStep /\ Attributes(ev')
          /\ ArrayGet(cgroup_serial_numbers, ev'.cg) # ev'.serial
          => /\ \A n \in CgroupMapNames :
                   ArrayGet(cgroup_counters'[n], ev'.cg) = OwnContribution(ev', n)
             /\ Len(ev'.offered) = 1
             /\ ev'.offered[1].id = ev'.cg
             /\ cgroup_info' = IF Len(cgroup_info) < RingbufRecords
                               THEN Append(cgroup_info, ev'.offered[1])
                               ELSE cgroup_info
             /\ ArrayGet(cgroup_serial_numbers', ev'.cg) = ev'.serial]_vars

\* Scenario D: version 3, version 3 again, then version 4 with counts to discard
C9_Witness ==
    /\ Attributes(prev) /\ ~prev.changed /\ prev.serial = U64(3)
    /\ Attributes(ev) /\ ev.cg = prev.cg /\ ev.serial = U64(4)
    /\ ev.changed /\ ev.had_counts
    /\ Len(ev.offered) = 1

\* C10: when two consecutive hook invocations attribute the same cgroup id
\* under the same version tag, the second offers no metadata record, leaves
\* the ring and the cached tags as they are and zeroes nothing: every
\* per-cgroup slot of the id keeps its value plus what the second event adds;
\* when the first found the tag changed, the two offered one record in all.
C10_Idempotent ==
    [][HookStep /\ Attributes(ev) /\ Attributes(ev')
          /\ ev'.cg = ev.cg /\ ev'.serial = ev.serial
          => /\ ev'.offered = <<>>
             /\ UNCHANGED <<cgroup_info, cgroup_serial_numbers>>
             /\ \A n \in CgroupMapNames :
                   ArrayGet(cgroup_counters'[n], ev'.cg) =
                       U64Add(ArrayGet(cgroup_counters[n], ev'.cg),
                              OwnContribution(ev', n))
             /\ ev.changed => Len(ev.offered) + Len(ev'.offered) = 1]_vars

C10_Witness ==
    /\ Attributes(prev) /\ prev.changed
    /\ Attributes(ev) /\ ev.cg = prev.cg /\ ev.serial = prev.serial
    /\ ev.offered = <<>>
    /\ \E n \in CgroupMapNames : ArrayGet(cgroup_counters[n], ev.cg) = U64(2)

\* C11 (as stated): over a session, metadata for a (cgroup id, version) pair
\* is offered to the channel once only: an attribution of a pair that an
\* earlier attribution of the session already carried offers no record, also
\* when another version of the same id was attributed in between.
C11_ExactlyOnce ==
    [][HookStep /\ Attributes(prev) /\ Attributes(ev) /\ Attributes(ev')
          /\ prev.cg = ev'.cg /\ prev.serial = ev'.serial /\ ev.cg = ev'.cg
          => ev'.offered = <<>>]_vars

\* C11 (amended): metadata is offered once per observed version change: an
\* attribution offers exactly one record, carrying the id and the names read
\* with the version, when the version differs from the cached tag of the id
\* and none otherwise; the cached tag is the version last attributed to the
\* id, so of two consecutive attributions of one id the second offers a
\* record exactly when its version differs from the first's, and a pair whose
\* id was attributed under another version in between is offered again.
C11_OncePerChange ==
    [][HookStep /\ Attributes(ev') =>
         /\ Len(ev'.offered) =
               IF ArrayGet(cgroup_serial_numbers, ev'.cg) = ev'.serial THEN 0 ELSE 1
         /\ ev'.offered # <<>> =>
               /\ ev'.offered[1].id = ev'.cg
               /\ ev'.offered[1].name = <<"cgroup", ev'.cg, ev'.serial[1]>>
         /\ ArrayGet(cgroup_serial_numbers', ev'.cg) = ev'.serial
         /\ Attributes(ev) /\ ev.cg = ev'.cg
               => (ev'.offered # <<>> <=> ev.serial # ev'.serial)
         /\ Attributes(prev) /\ Attributes(ev) /\ prev.cg = ev'.cg
               /\ ev.cg = ev'.cg /\ prev.serial = ev'.serial
               /\ ev.serial # ev'.serial
               => Len(ev'.offered) = 1]_vars

\* version 3, version 4, version 3 again: the record of version 3 that the
\* first attribution put on the ring is still there when the third
\* attribution offers it a second time
C11_Witness ==
    /\ steps = 3
    /\ Attributes(prev) /\ prev.changed /\ prev.serial = U64(4)
    /\ Attributes(ev) /\ ev.cg = prev.cg /\ ev.serial = U64(3) /\ ev.changed
    /\ ev.offered = <<CgInfo(TaskGroup(ev.cg, U64(3)))>>
    /\ cgroup_info = ev.offered
    /\ sampler = "syscall"
    /\ ArrayGet(cgroup_counters["cgroup_syscall_read"], ev.cg) = U64(1)

\* C13: an event whose cgroup id is 0 or not below MAX_CGROUPS is
\* unattributed: the hook changes no per-cgroup slot and no cached version
\* tag, offers no metadata record and leaves the ring as it is, while it
\* still adds 1 to the slot of the event in the system-wide per-CPU bank.
C13_Unattributed ==
    [][HookStep /\ ev'.hook \in {"sys_enter", "tlb_flush"} /\ ev'.counted
          /\ (ev'.cg = 0 \/ ev'.cg >= MAX_CGROUPS)
          => /\ UNCHANGED <<cgroup_counters, cgroup_serial_numbers, cgroup_info>>
             /\ ev'.offered = <<>>
             /\ ~ev'.resolved
             /\ ArrayGet(Bank', ev'.idx) = U64Add(ArrayGet(Bank, ev'.idx), U64(1))]_vars

\* after an attributed event has left counts and a tag behind, an event of
\* cgroup id MAX_CGROUPS is counted system-wide only
C13_Witness ==
    /\ Attributes(prev) /\ prev.changed
    /\ ev.hook \in {"sys_enter", "tlb_flush"} /\ ev.counted
    /\ ev.cg = MAX_CGROUPS /\ ev.serial # Zero64
    /\ sched_task_group_exists
    /\ ArrayGet(Bank, ev.idx) = U64(2)
    /\ ArrayGet(cgroup_serial_numbers, prev.cg) = prev.serial
    /\ Len(cgroup_info) = 1

(***************************************************************************)
(* Histogram properties.                                                   *)
(***************************************************************************)
ObserveHooks == {"sys_exit", "handle_tcp_rcv_space_adjust", "tcp_sendmsg",
                 "tcp_cleanup_rbuf"}

\* the invocation computed a bucket index for a value and looked the bucket up
Observed(e) == e.hook \in ObserveHooks /\ e.dur # <<>>

\* the grouping power, the bucket array and its size in the hook of event e
HookPower(e) ==
    IF e.hook = "sys_exit" THEN SYSCALL_HISTOGRAM_POWER
    ELSE IF e.hook = "handle_tcp_rcv_space_adjust" THEN TCP_HISTOGRAM_POWER
    ELSE TRAFFIC_HISTOGRAM_POWER

HookBuckets(e) ==
    IF e.hook = "sys_exit" THEN SYSCALL_HISTOGRAM_BUCKETS
    ELSE IF e.hook = "handle_tcp_rcv_space_adjust" THEN TCP_HISTOGRAM_BUCKETS
    ELSE TRAFFIC_HISTOGRAM_BUCKETS

HookHistogram(e) ==
    IF e.hook = "sys_exit" THEN SyscallLatencyMaps[e.group + 1]
    ELSE IF e.hook = "handle_tcp_rcv_space_adjust" THEN "latency"
    ELSE IF e.hook = "tcp_sendmsg" THEN "tx_size"
    ELSE "rx_size"

\* the value of event e is below 2^top, where 2^top is the first value whose
\* bucket the array of event e does not hold (top = 64: it holds them all)
BelowCapacity(e) ==
    LET top == HookBuckets(e) \div 2^HookPower(e) + HookPower(e) - 1
    IN  top >= 64 \/ U64Lt(e.dur[1], U64Shl(U64(1), top))

RECURSIVE BucketSumOver(_, _)
BucketSumOver(map, keys) ==
    IF keys = {} THEN Zero64
    ELSE LET k == CHOOSE x \in keys : TRUE
         IN  U64Add(map[k], BucketSumOver(map, keys \ {k}))

\* the sum of the buckets of a histogram
BucketSum(map) == BucketSumOver(map, DOMAIN map)

C16_LinearOctaves ==
    [][HookStep /\ Observed(ev') =>
         LET p == HookPower(ev')
             v == ev'.dur[1]
             k == ev'.idx \div 2^p + p - 1
             j == ev'.idx % 2^p
         IN  /\ U64Lt(v, U64(2^p)) <=> ev'.idx < 2^p
             /\ ev'.idx < 2^p => ev'.idx = v[1]
             /\ ev'.idx >= 2^p
                   => /\ k \in p..63
                      /\ U64Le(BucketEdge(p, k, j, FALSE), v)
                      /\ U64Le(v, BucketEdge(p, k, j, TRUE))]_vars

\* the last value of the last bucket the latency histogram holds is counted
\* there
C16_Witness ==
    /\ ev.hook = "handle_tcp_rcv_space_adjust" /\ Observed(ev)
    /\ ev.dur = <<U64Sub(U64Shl(U64(1), 35), U64(1))>>
    /\ ev.idx = TCP_HISTOGRAM_BUCKETS - 1
    /\ ArrayGet(histograms["latency"], ev.idx) = U64(1)

\* C17 (as stated): every observation adds exactly 1 to exactly one bucket
\* of its histogram, so the sum of the buckets grows by 1 with every
\* observation, whatever the value.
C17_Conservation ==
    [][HookStep /\ Observed(ev') =>
         /\ BucketSum(histograms'[HookHistogram(ev')]) =
               U64Add(BucketSum(histograms[HookHistogram(ev')]), U64(1))
         /\ \E k \in DOMAIN histograms'[HookHistogram(ev')] :
               /\ histograms'[HookHistogram(ev')][k] =
                     U64Add(ArrayGet(histograms[HookHistogram(ev')], k), U64(1))
               /\ \A n \in HistogramNames :
                    \A i \in (DOMAIN histograms[n] \cup DOMAIN histograms'[n]) :
                       n # HookHistogram(ev') \/ i # k
                           => ArrayGet(histograms'[n], i) = ArrayGet(histograms[n], i)
        ]_vars

\* C17 (amended): an observation whose bucket index is below the size of the
\* bucket array adds exactly 1 to that bucket and changes no other bucket of
\* any histogram; an observation whose index is not below it (a value of
\* 2^35 or more in the TCP histograms, none in the syscall histograms)
\* changes no bucket.  The sum of the buckets of a histogram grows by 1 with
\* every observation of the first kind and not at all with the others.
C17_ConservationBelowCapacity ==
    [][HookStep /\ Observed(ev') =>
         LET counted == ev'.idx < HookBuckets(ev')
         IN  /\ counted <=> BelowCapacity(ev')
             /\ BucketSum(histograms'[HookHistogram(ev')]) =
                   U64Add(BucketSum(histograms[HookHistogram(ev')]),
                          IF counted THEN U64(1) ELSE Zero64)
             /\ \A n \in HistogramNames :
                  \A i \in (DOMAIN histograms[n] \cup DOMAIN histograms'[n]) :
                     ArrayGet(histograms'[n], i) =
                        IF counted /\ n = HookHistogram(ev') /\ i = ev'.idx
                        THEN U64Add(ArrayGet(histograms[n], i), U64(1))
                        ELSE ArrayGet(histograms[n], i)]_vars

\* a packet read 2^63 ns after it arrived is in no bucket, and its socket is
\* IDLE again
C17_Witness ==
    /\ ev.hook = "handle_tcp_rcv_space_adjust" /\ Observed(ev)
    /\ ev.dur = <<U64Shl(U64(1), 63)>>
    /\ ev.idx = total_buckets(TCP_HISTOGRAM_POWER) - 2^TCP_HISTOGRAM_POWER
    /\ BucketSum(histograms["latency"]) = Zero64
    /\ start = EmptyMap

\* C18 (as stated), Scenario A: at power 3 the values 0, 7, 8, 15 and 16
\* fall into the buckets 0, 7, 8, 8 and 9.
C18_ScenarioA ==
    [][HookStep /\ ev'.hook = "sys_exit" /\ Observed(ev') =>
         /\ ev'.dur = <<U64(0)>> => ev'.idx = 0
         /\ ev'.dur = <<U64(7)>> => ev'.idx = 7
         /\ ev'.dur = <<U64(8)>> => ev'.idx = 8
         /\ ev'.dur = <<U64(15)>> => ev'.idx = 8
         /\ ev'.dur = <<U64(16)>> => ev'.idx = 9]_vars

\* C18 (amended): at power 3 a syscall that returns 0, 7, 8, 15 or 16 ns
\* after it was entered is counted in bucket 0, 7, 8, 15 or 16 of the
\* latency histogram of its family: the octave 8 .. 15 has eight buckets of
\* one value each, and 16 is the first value of the next octave.
C18_ScenarioAOneValuePerBucket ==
    [][HookStep /\ ev'.hook = "sys_exit" /\ ev'.id >= 0
          /\ ArrayGet(start, ev'.key) # Zero64
          /\ U64Sub(ev'.now, ArrayGet(start, ev'.key)) \in
                {U64(0), U64(7), U64(8), U64(15), U64(16)}
          => /\ ev'.dur = <<U64Sub(ev'.now, ArrayGet(start, ev'.key))>>
             /\ ev'.idx = ev'.dur[1][1]
             /\ ArrayGet(histograms'[HookHistogram(ev')], ev'.idx) =
                   U64Add(ArrayGet(histograms[HookHistogram(ev')], ev'.idx),
                          U64(1))]_vars

C18_Witness ==
    /\ ev.hook = "sys_exit" /\ Observed(ev)
    /\ ev.now = U64Add(DefaultTime, U64(15))
    /\ ev.dur = <<U64(15)>>
    /\ ev.idx = 15
    /\ ArrayGet(histograms["read_latency"], 15) = U64(1)

(***************************************************************************)
(* C19: the table of pending packet arrivals holds at most MAX_ENTRIES     *)
(* sockets.  When it is full, the arrival of a packet on a socket that has *)
(* no entry changes nothing: no entry is added and none is evicted.  The   *)
(* read of that socket that follows finds no entry and records nothing.    *)
(* The number of pending entries never exceeds MAX_ENTRIES.                *)
(***************************************************************************)
TableFull == Cardinality(DOMAIN start) >= MAX_ENTRIES

C19_CapacityLossy ==
    [][HookStep =>
          /\ Cardinality(DOMAIN start') <= MAX_ENTRIES
          /\ (/\ ev'.hook = "handle_tcp_probe"
              /\ TableFull
              /\ ev'.sk \notin DOMAIN start)
                => start' = start
          /\ (/\ ev.hook = "handle_tcp_probe"
              /\ ev.began
              /\ ev.sk \notin DOMAIN start
              /\ ev'.hook = "handle_tcp_rcv_space_adjust"
              /\ SameKey(ev, ev'))
                => /\ ev'.dur = <<>>
                   /\ UNCHANGED <<start, histograms>>]_vars

\* a packet arrived on a socket without an entry while the table was full, and
\* the read of that socket has just run
C19_Witness ==
    /\ prev.hook = "handle_tcp_probe"
    /\ prev.began
    /\ ~prev.pending
    /\ ev.hook = "handle_tcp_rcv_space_adjust"
    /\ SameKey(prev, ev)
    /\ ~ev.pending
    /\ TableFull

(***************************************************************************)
(* C14: when an invocation of sys_enter or tlb_flush starts on every CPU   *)
(* for the same cgroup id and version while the cached tag of the id       *)
(* differs from the version, then once all of them have returned at least  *)
(* one of them has offered a metadata record, each has offered at most     *)
(* one, the cached tag equals the version, and, if the ring had room when  *)
(* they started, at least one record was written to the ring.              *)
(***************************************************************************)
C14_FirstSight ==
    [][(/\ sampler \in {"syscall", "tlb_flush"}
        /\ ~AllDone
        /\ AllDone'
        /\ \A c \in DOMAIN cpus : cpus'[c].stale)
          => /\ \E c \in DOMAIN cpus : cpus'[c].offered = 1
             /\ \A c \in DOMAIN cpus : cpus'[c].offered <= 1
             /\ \A c \in DOMAIN cpus :
                   ArrayGet(cgroup_serial_numbers', cpus'[c].cgrp.id)
                       = cpus'[c].cgrp.serial_nr
             /\ (\A c \in DOMAIN cpus : cpus'[c].room)
                   => \E c \in DOMAIN cpus :
                         cpus'[c].offered = 1 /\ ~cpus'[c].dropped]_vars

\* every one of the concurrent invocations saw the change of the version and
\* wrote its record to the ring
C14_Witness ==
    /\ sampler \in {"syscall", "tlb_flush"}
    /\ AllDone
    /\ \A c \in DOMAIN cpus :
          /\ cpus[c].stale
          /\ cpus[c].is_new
          /\ cpus[c].offered = 1
          /\ ~cpus[c].dropped

(***************************************************************************)
(* C20: in a parallel session every increment of the session's group lands *)
(* in the slot processor * group width + group of the shard of the CPU the *)
(* hook ran on, and nowhere else: the slot of each CPU equals the number   *)
(* of increments the CPU has made, no slot outside these is written, and   *)
(* once C CPUs have each completed M invocations the slots sum to C * M.   *)
(***************************************************************************)
ShardWidth ==
    IF sampler = "traffic" THEN TRAFFIC_COUNTER_GROUP_WIDTH ELSE BankWidth

\* the group the hooks of a parallel session increment
ShardGroup == IF sampler = "traffic" THEN TCP_TX_PACKETS ELSE 1

ShardSlot(c) == ShardWidth * (c - 1) + ShardGroup

\* the bytes slot of tcp_sendmsg on CPU c
BytesSlot(c) == TRAFFIC_COUNTER_GROUP_WIDTH * (c - 1) + TCP_TX_BYTES

\* the increments of its group that the hooks on CPU c have made so far; the
\* invocations that ran alone ran on processor 0
Incremented(c) ==
    cpus[c].calls
    - (IF cpus[c].pc \in {"write_start", "incr_counter", "incr_events", "add_bytes",
                          "incr_packets"} THEN 1 ELSE 0)
    + (IF c = 1 THEN steps ELSE 0)

ShardTotal ==
    BucketSumOver(Bank, {ShardSlot(c) : c \in DOMAIN cpus} \cap DOMAIN Bank)

C20_ShardedTotals ==
    sampler \in {"syscall", "tlb_flush", "traffic"} =>
    /\ \A c \in DOMAIN cpus : ArrayGet(Bank, ShardSlot(c)) = U64(Incremented(c))
    /\ \A k \in DOMAIN Bank :
          \E c \in DOMAIN cpus :
             k = ShardSlot(c) \/ (sampler = "traffic" /\ k = BytesSlot(c))
    /\ sampler = "traffic" =>
          \A c \in DOMAIN cpus :
             ArrayGet(counters, BytesSlot(c)) =
                 U64(cpus[c].size[1]
                        * (cpus[c].calls - IF cpus[c].pc = "add_bytes" THEN 1 ELSE 0))
    /\ \A m \in 1..NumRounds :
          (steps = 0 /\ \A c \in DOMAIN cpus : cpus[c].pc = "done" /\ cpus[c].calls = m)
             => ShardTotal = U64(NumRunning * m)

\* every CPU has sent NumRounds messages and the packet slots sum to their number
C20_Witness ==
    /\ sampler = "traffic"
    /\ \A c \in DOMAIN cpus : cpus[c].pc = "done" /\ cpus[c].calls = NumRounds
    /\ ShardTotal = U64(NumRunning * NumRounds)
    /\ NumRunning * NumRounds > 1

(***************************************************************************)
(* C12.  The parts shared by the claim as stated and as amended: (a) an    *)
(* attribution that finds the version changed while the ring is full       *)
(* offers its record, the ring stays as it is, every per-cgroup slot of    *)
(* the id holds only what the event itself adds, and the cached tag is the *)
(* version; (b) a concurrent invocation whose record was dropped still     *)
(* sets the cached tag and adds 1 to the slot of its family.               *)
(***************************************************************************)
DropKeepsRebase ==
    /\ (HookStep /\ Attributes(ev')
          /\ ArrayGet(cgroup_serial_numbers, ev'.cg) # ev'.serial
          /\ Len(cgroup_info) >= RingbufRecords)
         => /\ Len(ev'.offered) = 1
            /\ cgroup_info' = cgroup_info
            /\ \A n \in CgroupMapNames :
                  ArrayGet(cgroup_counters'[n], ev'.cg) = OwnContribution(ev', n)
            /\ ArrayGet(cgroup_serial_numbers', ev'.cg) = ev'.serial
    /\ \A c \in DOMAIN cpus :
          (cpus[c].pc = "ringbuf_output" /\ cpus'[c].pc # "ringbuf_output"
             /\ Len(cgroup_info) >= RingbufRecords)
            => cpus'[c].dropped /\ cgroup_info' = cgroup_info
    /\ \A c \in DOMAIN cpus :
          (cpus[c].pc = "incr_cgroup" /\ cpus'[c].pc = "done" /\ cpus[c].dropped)
            => /\ ArrayGet(cgroup_serial_numbers', cpus[c].cgrp.id)
                      = cpus[c].cgrp.serial_nr
               /\ \E n \in CgroupMapNames :
                     ArrayGet(cgroup_counters'[n], cpus[c].cgrp.id) =
                         U64Add(ArrayGet(cgroup_counters[n], cpus[c].cgrp.id), U64(1))

\* the record of every one of the concurrent invocations was dropped, and the
\* next hook invocation attributes the same cgroup id and version
AttributesDropped(e) ==
    /\ Attributes(e)
    /\ AllDone
    /\ \A c \in DOMAIN cpus :
          /\ cpus[c].dropped
          /\ cpus[c].cgrp.id = e.cg
          /\ cpus[c].cgrp.serial_nr = e.serial

\* every hook invocation since the concurrent ones attributed the version of
\* the cgroup id that they did
SameVersionSince ==
    LET n == steps - cpus[1].at
    IN  /\ n <= 2
        /\ n >= 1 => Attributes(ev) /\ ev.serial = cpus[1].cgrp.serial_nr
        /\ n >= 2 => Attributes(prev) /\ prev.serial = cpus[1].cgrp.serial_nr

\* C12 (as stated): a record dropped on a full ring is not emitted by any
\* later attribution of the same cgroup id and version.
C12_DroppedNeverRetried ==
    [][/\ DropKeepsRebase
       /\ HookStep /\ AttributesDropped(ev') => cgroup_info' = cgroup_info]_vars

\* C12 (amended): a record dropped on a full ring is not offered again by a
\* later attribution of the same cgroup id and version as long as no other
\* version of the id has been attributed in between; in particular not by the
\* hook invocation that follows the one that dropped it.
C12_DroppedNotRetriedUntilChange ==
    [][/\ DropKeepsRebase
       /\ (HookStep /\ AttributesDropped(ev') /\ SameVersionSince)
             => ev'.offered = <<>> /\ cgroup_info' = cgroup_info
       /\ (HookStep /\ Attributes(ev) /\ Attributes(ev') /\ ev.cg = ev'.cg
             /\ ev.serial = ev'.serial /\ Len(cgroup_info) >= RingbufRecords
             /\ (AllIdle \/ cpus[1].at < steps))
             => ev'.offered = <<>> /\ cgroup_info' = cgroup_info]_vars

\* the records of the concurrent invocations were dropped, the reader has
\* since emptied the ring, and the next attribution of the same cgroup id and
\* version has offered nothing
C12_Witness ==
    /\ AllDone
    /\ \A c \in DOMAIN cpus :
          /\ cpus[c].is_new
          /\ cpus[c].dropped
          /\ cpus[c].cgrp.id = ev.cg
          /\ cpus[c].cgrp.serial_nr = ev.serial
    /\ steps = cpus[1].at + 1
    /\ Attributes(ev)
    /\ ev.offered = <<>>
    /\ cgroup_info = <<>>

(***************************************************************************)
(* C21: no hook invocation writes an entry of syscall_lut or irq_lut, and  *)
(* of two consecutive hook invocations that classify the same raw id the   *)
(* second obtains the group the first obtained.                            *)
(***************************************************************************)
\* the hook invocation looked its raw id up in the classification table
Classified(e) ==
    \/ e.hook = "sys_enter" /\ e.counted
    \/ e.hook = "sys_exit" /\ e.dur # <<>>
    \/ e.hook = "softirq_exit" /\ e.counted

C21_TablesReadOnly ==
    [][HookStep =>
          /\ UNCHANGED <<syscall_lut, irq_lut>>
          /\ (Classified(ev) /\ Classified(ev') /\ ev.id = ev'.id)
                => ev'.group = ev.group]_vars

\* a sys_enter and the sys_exit after it classified the same syscall into the
\* same family, not the default one, and the table is as it was loaded
C21_Witness ==
    /\ prev.hook = "sys_enter"
    /\ ev.hook = "sys_exit"
    /\ Classified(ev)
    /\ ev.group > 0
    /\ ArrayGet(syscall_lut, ev.id) # Zero64


(***************************************************************************)
(* C22 (as stated): the first attribution of an in-range cgroup id in a    *)
(* session, made while the cached-version table is still as it was created *)
(* (all zero), is treated as new or changed whatever the version tag is:   *)
(* one metadata record is offered, the tag is stored and every per-cgroup  *)
(* slot of the id holds only what the event itself adds.                   *)
(***************************************************************************)
C22_FirstSightDetected ==
    [][HookStep /\ Attributes(ev')
          /\ DOMAIN cgroup_serial_numbers = {}
          /\ cgroup_info = <<>>
          => /\ ev'.changed
             /\ Len(ev'.offered) = 1
             /\ cgroup_info' = <<ev'.offered[1]>>
             /\ ArrayGet(cgroup_serial_numbers', ev'.cg) = ev'.serial
             /\ \A n \in CgroupMapNames :
                   ArrayGet(cgroup_counters'[n], ev'.cg)
                       = OwnContribution(ev', n)]_vars

\* the first attribution of the session reads the version tag 0, finds it
\* equal to the never-written entry and emits nothing
C22_Witness ==
    /\ steps = 1
    /\ Attributes(ev)
    /\ ev.serial = Zero64
    /\ ~ev.changed
    /\ ev.offered = <<>>
    /\ cgroup_info = <<>>


(***************************************************************************)
(* C23 (as stated): counter slots are addressed injectively: two per-task  *)
(* perf counter updates, made by one hook invocation or by two consecutive *)
(* ones, that differ in the thread group id or in the counter (CYCLES,     *)
(* INSTRUCTIONS) never modify the same slot of counters.                   *)
(***************************************************************************)
SlotsOf(e) == {e.slots[k] : k \in DOMAIN e.slots}

C23_InjectiveSlots ==
    [][HookStep =>
          \A a \in SlotsOf(ev) \cup SlotsOf(ev'), b \in SlotsOf(ev') :
              <<a[1], a[2]>> # <<b[1], b[2]>> => a[3] # b[3]]_vars

\* INSTRUCTIONS of thread group 1 and then CYCLES of thread group 2 were
\* added to the same slot
C23_Witness ==
    /\ prev.hook = "handle__sched_switch" /\ prev.key = 1
    /\ ev.hook = "handle__sched_switch" /\ ev.key = 2
    /\ <<2, CYCLES, 2>> \in SlotsOf(ev)
    /\ ArrayGet(counters, 2) = U64(3000)


(***************************************************************************)
(* C24 (as stated): a sys_enter or tlb_flush invocation in a session whose *)
(* kernel has no sched_task_group field changes no system-wide counter     *)
(* slot, no per-cgroup slot, no cached tag and no channel record.          *)
(***************************************************************************)
C24_ZeroObservations ==
    [][HookStep /\ ~sched_task_group_exists
          /\ ev'.hook \in {"sys_enter", "tlb_flush"}
          => UNCHANGED <<counters, events, cgroup_counters,
                         cgroup_serial_numbers, cgroup_info>>]_vars

\* C24 (amended): such an invocation changes no per-cgroup slot, no cached
\* tag and no channel record and offers no metadata record, but it has
\* already counted the event system-wide: the slot it indexes in the
\* system-wide bank, when that is in range, is one more than before.
C24_NoAttributionOnly ==
    [][HookStep /\ ~sched_task_group_exists
          /\ ev'.hook \in {"sys_enter", "tlb_flush"}
          => /\ UNCHANGED <<cgroup_counters, cgroup_serial_numbers, cgroup_info>>
             /\ ev'.offered = <<>>
             /\ (ev'.counted /\ InRange(ev'.idx, BankCapacity))
                   => ArrayGet(Bank', ev'.idx)
                         = U64Add(ArrayGet(Bank, ev'.idx), U64(1))]_vars

\* a syscall of a task in cgroup 1 was counted system-wide and attributed to
\* no cgroup
C24_Witness ==
    /\ ~sched_task_group_exists
    /\ ev.hook = "sys_enter"
    /\ ev.counted
    /\ ev.cg = 1
    /\ ev.serial = U64(3)
    /\ ArrayGet(counters, ev.idx) # Zero64
    /\ \A n \in CgroupMapNames : cgroup_counters[n] = EmptyMap
    /\ cgroup_serial_numbers = EmptyMap
    /\ cgroup_info = <<>>


(***************************************************************************)
(* C25: a sys_exit that finds a pending start increments exactly one       *)
(* bucket, by one, of exactly one latency histogram: the histogram of the  *)
(* family the hook classified its syscall id into (other_latency for       *)
(* family 0). Every bucket of every other histogram, every system-wide     *)
(* counter slot and every per-cgroup counter slot is left as it was.       *)
(***************************************************************************)
C25_OneFamilyBucket ==
    [][HookStep /\ ev'.hook = "sys_exit" /\ ev'.dur # <<>>
          => LET g == ev'.group
                 h == SyscallLatencyMaps[g + 1]
             IN  /\ g \in 0..(SYSCALL_COUNTER_GROUP_WIDTH - 1)
                 /\ g = 0 => h = "other_latency"
                 /\ ev'.idx \in 0..(SYSCALL_HISTOGRAM_BUCKETS - 1)
                 /\ histograms'[h] =
                        ArrayPut(histograms[h], ev'.idx,
                                 U64Add(ArrayGet(histograms[h], ev'.idx), U64(1)))
                 /\ \A n \in HistogramNames \ {h} : histograms'[n] = histograms[n]
                 /\ UNCHANGED <<counters, events, cgroup_counters>>]_vars

\* a syscall of family 1 returned 500 ns after it was entered: read_latency
\* holds the one observation of the session
C25_Witness ==
    /\ ev.hook = "sys_exit"
    /\ ev.dur = <<U64(500)>>
    /\ ev.group = 1
    /\ ArrayGet(histograms["read_latency"], ev.idx) = U64(1)
    /\ \A n \in HistogramNames \ {"read_latency"} : histograms[n] = EmptyMap
    /\ counters # EmptyMap


(***************************************************************************)
(* C26: when a sys_enter or tlb_flush event of family g finds the version  *)
(* of its cgroup id c changed, the zeroing precedes the event's own        *)
(* increment: on return the slot of c in the per-cgroup map of family g is *)
(* exactly 1 and the slot of c in the per-cgroup map of every other family *)
(* of the sampler is 0.                                                     *)
(***************************************************************************)
FamilyMaps(e) == IF e.hook = "sys_enter" THEN SyscallCgroupMaps ELSE TlbCgroupMaps

FamilyOf(e) == IF e.hook = "sys_enter" THEN e.group ELSE e.id

C26_ZeroBeforeIncrement ==
    [][HookStep /\ ev'.hook \in {"sys_enter", "tlb_flush"}
          /\ Attributes(ev') /\ ev'.changed
          /\ FamilyOf(ev') \in 0..(Len(FamilyMaps(ev')) - 1)
          => \A g \in 0..(Len(FamilyMaps(ev')) - 1) :
                ArrayGet(cgroup_counters'[FamilyMaps(ev')[g + 1]], ev'.cg)
                    = IF g = FamilyOf(ev') THEN U64(1) ELSE Zero64]_vars

\* two syscalls of family 1 under version 3 and a third under version 4: the
\* count of 2 is discarded and the slot reads 1
C26_Witness ==
    /\ steps = 3
    /\ Attributes(prev) /\ prev.hook = "sys_enter" /\ ~prev.changed
    /\ prev.serial = U64(3)
    /\ ev.hook = "sys_enter" /\ ev.changed /\ ev.had_counts
    /\ ev.cg = prev.cg /\ ev.serial = U64(4)
    /\ ev.group = 1
    /\ ArrayGet(cgroup_counters["cgroup_syscall_read"], ev.cg) = U64(1)


(***************************************************************************)
(* C27 (as stated): when the concurrent sys_enter or tlb_flush invocations *)
(* of one family, one cgroup id and one new version, all begun while the   *)
(* cached tag was stale, have all finished and no hook has run since, the  *)
(* slot of the id in the per-cgroup map of the family equals their number. *)
(***************************************************************************)
ConcurrentFamilySlot ==
    ArrayGet(cgroup_counters[IF sampler = "syscall"
                             THEN SyscallCgroupMaps[cpus[1].group + 1]
                             ELSE TlbCgroupMaps[cpus[1].id + 1]],
             cpus[1].cgrp.id)

C27_FirstSightConservation ==
    (/\ sampler \in {"syscall", "tlb_flush"}
     /\ AllDone
     /\ steps = cpus[1].at
     /\ \A c \in DOMAIN cpus : cpus[c].stale)
        => ConcurrentFamilySlot = U64(NumRunning)

\* every concurrent invocation saw the stale tag and zeroed the slots, the
\* last zeroing came after another invocation's increment, and the slot holds
\* fewer events than were attributed
C27_Witness ==
    /\ sampler \in {"syscall", "tlb_flush"}
    /\ AllDone
    /\ steps = cpus[1].at
    /\ \A c \in DOMAIN cpus : cpus[c].stale /\ cpus[c].is_new
    /\ ConcurrentFamilySlot = U64(1)
    /\ ArrayGet(cgroup_serial_numbers, cpus[1].cgrp.id) = cpus[1].cgrp.serial_nr


(***************************************************************************)
(* C28 (as stated): of the cpu_cfs_unthrottle_enter invocations that run   *)
(* concurrently for one cgroup id, at most one finds the pending start     *)
(* and records a duration.                                                 *)
(***************************************************************************)
Recorded == {c \in DOMAIN cpus : cpus[c].duration # <<>>}

C28_OneEndPerStart ==
    sampler = "throttled" => Cardinality(Recorded) <= 1

\* one throttle at 1000, then every concurrent unthrottle at 1500 found the
\* start pending and added its 500 ns
C28_Witness ==
    /\ sampler = "throttled"
    /\ steps = 1
    /\ ev.hook = "cpu_cfs_throttle_enter" /\ ev.began
    /\ AllDone
    /\ \A c \in DOMAIN cpus : cpus[c].duration = <<U64(500)>>
    /\ ArrayGet(cgroup_counters["cgroup_throttled_time"], cpus[1].cgrp.id)
          = U64(500 * NumRunning)
    /\ ArrayGet(throttling_start, cpus[1].cgrp.id) = Zero64


(***************************************************************************)
(* C29 (as stated): when tg_throttle_up_enter finds the version of its     *)
(* cgroup id changed and zeroes the counters of the id, a start left       *)
(* pending by a begin hook that ran under the previous version is not      *)
(* added to cgroup_throttled_time of the id: the slot is 0 on return.      *)
(***************************************************************************)
ThrottleBeginHooks == {"cpu_cfs_throttle_enter", "tg_throttle_down_enter"}

C29_TimeOfCurrentVersion ==
    [][HookStep /\ ev.hook \in ThrottleBeginHooks /\ ev.began /\ Attributes(ev)
          /\ ev'.hook = "tg_throttle_up_enter" /\ Attributes(ev')
          /\ ev'.cg = ev.cg /\ ev'.serial # ev.serial
          /\ PendingIn(start, throttling_start, ev') # <<>>
          => ArrayGet(cgroup_counters'["cgroup_throttled_time"], ev'.cg)
                = Zero64]_vars

\* throttled at 1000 under version 3, unthrottled at 1500 under version 4: the
\* 500 ns are the whole throttled time of version 4
C29_Witness ==
    /\ prev.hook = "cpu_cfs_throttle_enter" /\ prev.began
    /\ prev.serial = U64(3)
    /\ ev.hook = "tg_throttle_up_enter" /\ ev.cg = prev.cg
    /\ ev.serial = U64(4)
    /\ ev.changed /\ ev.pending
    /\ ev.dur = <<U64(500)>>
    /\ ArrayGet(cgroup_counters["cgroup_throttled_time"], ev.cg) = U64(500)
    /\ ArrayGet(cgroup_serial_numbers, ev.cg) = U64(4)


(***************************************************************************)
(* C30: an attribution that finds the version of cgroup id c changed       *)
(* re-initialises c only: the per-cgroup slots and the cached tag of every *)
(* other cgroup id are as before, no histogram bucket changes, and the     *)
(* only system-wide slot and interval entry that differ are the ones the   *)
(* event itself counts in or begins or ends (the slot it indexes is one    *)
(* more than before, and the entries of other keys are untouched).         *)
(***************************************************************************)
OtherKeys(m1, m2, key) == (DOMAIN m1 \cup DOMAIN m2) \ {key}

C30_ScopedToOneId ==
    [][HookStep /\ Attributes(ev') /\ ev'.changed
          => /\ \A n \in CgroupMapNames :
                   \A k \in OtherKeys(cgroup_counters[n], cgroup_counters'[n], ev'.cg) :
                      ArrayGet(cgroup_counters'[n], k) = ArrayGet(cgroup_counters[n], k)
             /\ \A k \in OtherKeys(cgroup_serial_numbers, cgroup_serial_numbers',
                                   ev'.cg) :
                   ArrayGet(cgroup_serial_numbers', k)
                       = ArrayGet(cgroup_serial_numbers, k)
             /\ UNCHANGED histograms
             /\ \A k \in OtherKeys(Bank, Bank', ev'.idx) :
                   ArrayGet(Bank', k) = ArrayGet(Bank, k)
             /\ ev'.counted =>
                   ArrayGet(Bank', ev'.idx) = U64Add(ArrayGet(Bank, ev'.idx), U64(1))
             /\ ~ev'.counted => Bank' = Bank
             /\ \A k \in OtherKeys(start, start', ev'.key) :
                   ArrayGet(start', k) = ArrayGet(start, k)
             /\ \A k \in OtherKeys(throttling_start, throttling_start', ev'.key) :
                   ArrayGet(throttling_start', k) = ArrayGet(throttling_start, k)]_vars

\* cgroup 1 and cgroup 2 were attributed under version 3, then cgroup 1 under
\* version 4: its counts were discarded while cgroup 2 keeps its tag and its
\* counts
C30_Witness ==
    /\ steps = 3
    /\ Attributes(ev) /\ ev.changed /\ ev.had_counts
    /\ ev.cg = 1 /\ ev.serial = U64(4)
    /\ Attributes(prev) /\ prev.cg = 2 /\ prev.serial = U64(3)
    /\ ArrayGet(cgroup_serial_numbers, 2) = U64(3)
    /\ \E n \in CgroupMapNames : ArrayGet(cgroup_counters[n], 2) # Zero64


(***************************************************************************)
(* C31 (as stated): a tlb_flush on a CPU below MAX_CPUS, with any reason,  *)
(* changes at most one slot of events, and only a slot of that CPU's own   *)
(* range [cpu * width, (cpu + 1) * width).                                 *)
(***************************************************************************)
ChangedSlots(m1, m2) ==
    {k \in DOMAIN m1 \cup DOMAIN m2 : ArrayGet(m1, k) # ArrayGet(m2, k)}

C31_ShardIsolation ==
    [][HookStep /\ ev'.hook = "tlb_flush" /\ InRange(ev'.cpu, MAX_CPUS)
          => /\ Cardinality(ChangedSlots(events, events')) <= 1
             /\ \A k \in ChangedSlots(events, events') :
                   /\ TLB_COUNTER_GROUP_WIDTH * ev'.cpu <= k
                   /\ k < TLB_COUNTER_GROUP_WIDTH * (ev'.cpu + 1)]_vars

\* a flush with reason COUNTER_GROUP_WIDTH on CPU 0 was counted in the first
\* slot of CPU 1
C31_Witness ==
    /\ ev.hook = "tlb_flush"
    /\ ev.cpu = 0
    /\ ev.id = TLB_COUNTER_GROUP_WIDTH
    /\ ArrayGet(events, TLB_COUNTER_GROUP_WIDTH) # Zero64



(***************************************************************************)
(* C32 (as stated): in the array-backed interval trackers (start of the    *)
(* syscall and softirq samplers, throttling_start) a begin leaves its key  *)
(* PENDING whatever timestamp it stores, 0 included, and the end of the    *)
(* same key that follows it with a timestamp not earlier than the begin's  *)
(* records exactly one duration.  The end hooks are taken with a           *)
(* non-negative syscall id, so that the early return of sys_exit on        *)
(* args->id < 0 is not the case examined.                                  *)
(***************************************************************************)
C32_BeginLeavesPending ==
    [][HookStep =>
         /\ ev'.hook \in ArrayBeginHooks /\ ev'.began
               => PendingIn(start', throttling_start', ev') # <<>>
         /\ ev.hook \in ArrayBeginHooks /\ ev.began /\ ev'.hook \in EndHooks
               /\ SameKey(ev, ev') /\ ev'.id >= 0 /\ U64Le(ev.now, ev'.now)
               => Len(ev'.dur) = 1]_vars

\* softirq_enter with the clock at 0, then softirq_exit on the same CPU at
\* 1000: the exit finds *start_ts == 0 and records nothing
C32_Witness ==
    /\ prev.hook = "softirq_enter" /\ prev.began /\ prev.now = Zero64
    /\ ev.hook = "softirq_exit" /\ SameKey(prev, ev)
    /\ ev.now = U64(1000)
    /\ ev.dur = <<>>
    /\ counters = EmptyMap



(***************************************************************************)
(* C33: in the syscall sampler with every CPU id below MAX_CPUS, for each  *)
(* syscall family g the per-cgroup counters of family g, summed over the   *)
(* cgroup ids, never exceed the system-wide slots cpu * COUNTER_GROUP_WIDTH*)
(* + g summed over the CPUs; and a sys_enter that attributes its event     *)
(* adds 1 to the per-cgroup slot of the very family g whose system-wide    *)
(* slot it incremented, the other per-cgroup slots of the cgroup being     *)
(* left as they were or zeroed by the version check.                       *)
(***************************************************************************)
SyscallFamilies == 0..(SYSCALL_COUNTER_GROUP_WIDTH - 1)

\* the per-cgroup counter of family g summed over the cgroup ids
CgroupFamilyTotal(maps, g) ==
    BucketSumOver(maps[SyscallCgroupMaps[g + 1]],
                  DOMAIN maps[SyscallCgroupMaps[g + 1]])

\* the system-wide slots of family g summed over the CPUs
SystemFamilyTotal(bank, g) ==
    BucketSumOver(bank, {k \in DOMAIN bank :
                           /\ k < MAX_CPUS * SYSCALL_COUNTER_GROUP_WIDTH
                           /\ k % SYSCALL_COUNTER_GROUP_WIDTH = g})

C33_CgroupBelowSystem ==
    /\ [](sampler = "syscall" =>
            \A g \in SyscallFamilies :
               U64Le(CgroupFamilyTotal(cgroup_counters, g),
                     SystemFamilyTotal(counters, g)))
    /\ [][HookStep /\ ev'.hook = "sys_enter" /\ Attributes(ev')
             /\ InRange(ev'.cpu, MAX_CPUS)
             => \E g \in SyscallFamilies :
                   /\ ChangedSlots(counters, counters')
                         = {SYSCALL_COUNTER_GROUP_WIDTH * ev'.cpu + g}
                   /\ \A h \in SyscallFamilies :
                         ArrayGet(cgroup_counters'[SyscallCgroupMaps[h + 1]], ev'.cg)
                            = U64Add(IF ev'.changed THEN Zero64
                                     ELSE ArrayGet(
                                            cgroup_counters[SyscallCgroupMaps[h + 1]],
                                            ev'.cg),
                                     IF h = g THEN U64(1) ELSE Zero64)]_vars

\* three syscalls of family 1 on CPU 0, the third under a new version of the
\* cgroup: 3 system-wide, 1 per-cgroup
C33_Witness ==
    /\ sampler = "syscall"
    /\ ev.hook = "sys_enter" /\ Attributes(ev) /\ ev.changed /\ ev.had_counts
    /\ ev.cpu = 0 /\ ev.group = 1
    /\ SystemFamilyTotal(counters, 1) = U64(3)
    /\ CgroupFamilyTotal(cgroup_counters, 1) = U64(1)



(***************************************************************************)
(* C34: in every state in which no __zone_statistics invocation is in      *)
(* progress, numa_hit[0] + numa_miss[0] = numa_local[0] + numa_other[0]    *)
(* and numa_miss[0] = numa_foreign[0], modulo 2^64; numa_interleave is     *)
(* never written.                                                          *)
(***************************************************************************)
NumaCount(name) == ArrayGet(numa_counters[name], 0)

NoZoneStatistics == \A c \in DOMAIN cpus : cpus[c].pc \in {"idle", "done"}

C34_NumaBalance ==
    sampler = "numa" =>
    /\ numa_counters["numa_interleave"] = EmptyMap
    /\ NoZoneStatistics =>
          /\ U64Add(NumaCount("numa_hit"), NumaCount("numa_miss"))
                = U64Add(NumaCount("numa_local"), NumaCount("numa_other"))
          /\ NumaCount("numa_miss") = NumaCount("numa_foreign")

\* a hit of 1 page and a miss of -1 pages, both on node 1, after the
\* invocations returned: the counters of the miss have wrapped
C34_Witness ==
    /\ sampler = "numa"
    /\ NoZoneStatistics
    /\ steps = 2
    /\ NumaCount("numa_hit") = U64(1)
    /\ NumaCount("numa_miss") = U64Sub(Zero64, U64(1))
    /\ NumaCount("numa_foreign") = U64Sub(Zero64, U64(1))
    /\ NumaCount("numa_local") = Zero64
    /\ NumaCount("numa_other") = Zero64

====
